---- MODULE Spec2Model ----
(***************************************************************************)
(* llsdb: a single-file store of linked lists with transactions.           *)
(*                                                                         *)
(* The module models                                                       *)
(*   - the free-space manager (src/src/freespace.rs): the coalescing index *)
(*     (end_to_start, sizes), the change log, the pending frees and the    *)
(*     bounded persistent snapshot (PersistFreeSpace);                     *)
(*   - the database object, the header page, the transactional I/O and the *)
(*     linked lists (src/src/llsdb.rs, src/src/linkedlist.rs), over a file *)
(*     that is a sequence of bytes.                                        *)
(***************************************************************************)
EXTENDS Integers, Sequences, FiniteSets, TLC

(***************************************************************************)
(* Bounds of the model.                                                    *)
(***************************************************************************)
\* the entry storage of the file never grows beyond this many bytes
MaxData == 10
\* the same for the runs of one session with the mutable list alone
MaxMutData == 18
\* a transaction body has at most this many operations that write or free
MaxBody == 5
\* the same for the sessions with a map
MaxMapData == 16
\* the same for the sessions with a VecRemove
MaxIndexData == 13
\* the same for the longer sessions with a VecRemove, without retain
MaxDeepData == 18
\* a transaction body of these sessions has at most this many operations
MaxDeepBody == 3
\* the same for the sessions with a Cell
MaxCellData == 10
\* the same for the longer sessions with a VecRemove that end in a retain
MaxRetainData == 21

\* entries on the mutable list at once in the longer sessions
MaxHeld == 2

\* bytes of address space after the header page on the small backend
SmallSpace == 14
\* the header pages handed to load: the free slots have end_pointer and size
\* up to this
MaxTornEnd == 6
\* the same for the sessions with a Vec
MaxVecData == 10
\* the same for the sessions with a Vec where the database is loaded again
\* or the write of the header page can fail
MaxFailData == 8
\* the unit harness of the free-space manager: size of the initial region
FsRegion == 5
\* the unit harness: the largest size handed to take_for_size
MaxTake == 2
\* the unit harness: the numbers of persistent slots tried are 1..MaxPersist
MaxPersist == 2

(***************************************************************************)
(* Small helpers on sets, sequences and maps.                              *)
(***************************************************************************)
SetMax(S) == CHOOSE x \in S : \A y \in S : y <= x

SetMin(S) == CHOOSE x \in S : \A y \in S : x <= y

Last(s) == s[Len(s)]

Front(s) == SubSeq(s, 1, Len(s) - 1)

RemoveAt(seq, i) == SubSeq(seq, 1, i - 1) \o SubSeq(seq, i + 1, Len(seq))

MapRemove(f, k) == [x \in (DOMAIN f) \ {k} |-> f[x]]

MapInsert(f, k, v) == (k :> v) @@ f

(***************************************************************************)
(* Free: a free region, ordered by size and then by end_pointer (the       *)
(* derived Ord of the struct follows the order of its fields).             *)
(***************************************************************************)
Free(size, end_pointer) == [size |-> size, end_pointer |-> end_pointer]

Free_NULL == Free(0, 0)

Free_from_start_pointer(start_pointer, size) == Free(size, start_pointer + size)

Free_start_pointer(free) == free.end_pointer - free.size

FreeLess(a, b) ==
    \/ a.size < b.size
    \/ a.size = b.size /\ a.end_pointer < b.end_pointer

FreeFirst(S) == CHOOSE x \in S : \A y \in S : y = x \/ FreeLess(x, y)

FreeLast(S) == CHOOSE x \in S : \A y \in S : y = x \/ FreeLess(y, x)

(***************************************************************************)
(* PersistFreeSpace: the bounded snapshot of the free regions that goes to *)
(* the header page. state is the slot array (slot i at index i, from 0),   *)
(* reverse_by_size maps a region to its slot, unused_slots is a stack,     *)
(* unplaced_queue holds the regions without a slot. panicked records that  *)
(* a panic!/expect of the code fired.                                      *)
(***************************************************************************)
RevRange(n) == [i \in 1..n |-> n - i]

PersistFreeSpace_new(n_persist) ==
    [ state           |-> [i \in 0..(n_persist - 1) |-> Free_NULL],
      reverse_by_size |-> <<>>,
      unused_slots    |-> RevRange(n_persist),
      unplaced_queue  |-> {},
      changed_slots   |-> {},
      panicked        |-> FALSE ]

\* the slots of `state` in the order restore pushes the unused ones: highest first
RestoreUnused(state) ==
    LET n == Cardinality(DOMAIN state)
        F[i \in 0..n] ==
            IF i = 0 THEN <<>>
            ELSE IF state[n - i] = Free_NULL THEN Append(F[i - 1], n - i)
            ELSE F[i - 1]
    IN  F[n]

\* iterating in reverse, a later insert of an equal region overwrites: the
\* lowest slot holding a region is the one the reverse map keeps
PersistFreeSpace_restore(state) ==
    LET used == {i \in DOMAIN state : state[i] # Free_NULL}
        regions == {state[i] : i \in used}
    IN  [ state           |-> state,
          reverse_by_size |-> [f \in regions |-> SetMin({i \in used : state[i] = f})],
          unused_slots    |-> RestoreUnused(state),
          unplaced_queue  |-> {},
          changed_slots   |-> {},
          panicked        |-> FALSE ]

PersistPlace(p, slot, free) ==
    [p EXCEPT !.reverse_by_size = MapInsert(@, free, slot),
              !.state = [@ EXCEPT ![slot] = free],
              !.changed_slots = @ \cup {slot}]

PersistFreeSpace_add_size_only(p, free) ==
    IF p.unused_slots # <<>>
    THEN PersistPlace([p EXCEPT !.unused_slots = Front(@)], Last(p.unused_slots), free)
    ELSE IF DOMAIN p.reverse_by_size = {}
    THEN [p EXCEPT !.panicked = TRUE]
    ELSE LET smallest == FreeFirst(DOMAIN p.reverse_by_size)
             slot == p.reverse_by_size[smallest]
         IN  IF free.size > smallest.size
             THEN PersistPlace(
                     [p EXCEPT !.reverse_by_size = MapRemove(@, smallest),
                               !.unplaced_queue = @ \cup {smallest}],
                     slot, free)
             ELSE [p EXCEPT !.unplaced_queue = @ \cup {free}]

PersistFreeSpace_add(p, free) ==
    IF p.unused_slots # <<>>
    THEN PersistPlace([p EXCEPT !.unused_slots = Front(@)], Last(p.unused_slots), free)
    ELSE IF DOMAIN p.reverse_by_size = {}
    THEN [p EXCEPT !.panicked = TRUE]
    ELSE LET smallest == FreeFirst(DOMAIN p.reverse_by_size)
             slot == p.reverse_by_size[smallest]
         IN  IF FreeLess(smallest, free)
             THEN PersistPlace(
                     [p EXCEPT !.reverse_by_size = MapRemove(@, smallest),
                               !.unplaced_queue = @ \cup {smallest}],
                     slot, free)
             ELSE [p EXCEPT !.unplaced_queue = @ \cup {free}]

PersistFreeSpace_remove_no_refill(p, free) ==
    IF free \in DOMAIN p.reverse_by_size
    THEN LET slot == p.reverse_by_size[free]
         IN  [p EXCEPT !.reverse_by_size = MapRemove(@, free),
                       !.state = [@ EXCEPT ![slot] = Free_NULL],
                       !.changed_slots = @ \cup {slot},
                       !.unused_slots = Append(@, slot)]
    ELSE IF free \in p.unplaced_queue
    THEN [p EXCEPT !.unplaced_queue = @ \ {free}]
    ELSE [p EXCEPT !.panicked = TRUE]

PersistFreeSpace_remove(p, free) ==
    IF free \in DOMAIN p.reverse_by_size
    THEN LET slot == p.reverse_by_size[free]
             p1 == [p EXCEPT !.reverse_by_size = MapRemove(@, free),
                             !.state = [@ EXCEPT ![slot] = Free_NULL],
                             !.changed_slots = @ \cup {slot},
                             !.unused_slots = Append(@, slot)]
         IN  IF p1.unplaced_queue # {}
             THEN LET next_in_queue == FreeLast(p1.unplaced_queue)
                  IN  PersistFreeSpace_add(
                          [p1 EXCEPT !.unplaced_queue = @ \ {next_in_queue}],
                          next_in_queue)
             ELSE p1
    ELSE IF free \in p.unplaced_queue
    THEN [p EXCEPT !.unplaced_queue = @ \ {free}]
    ELSE [p EXCEPT !.panicked = TRUE]

PersistFreeSpace_take_changed_slots(p) == [p EXCEPT !.changed_slots = {}]

(***************************************************************************)
(* FreeSpace: the coalescing index. end_to_start is the adjacency map,     *)
(* sizes the set ordered by (size, end_pointer), tx_changes the change log *)
(* of the running transaction, pending_frees the deferred frees.           *)
(***************************************************************************)
Change(kind, free) == [kind |-> kind, free |-> free]

FreeSpace_new(n_persist) ==
    [ end_to_start  |-> <<>>,
      sizes         |-> {},
      tx_changes    |-> <<>>,
      pending_frees |-> <<>>,
      persist       |-> PersistFreeSpace_new(n_persist),
      panicked      |-> FALSE ]

\* only the first slot of the restored state goes into the index
FreeSpace_new_from_persist_state_first(state) ==
    LET persist == PersistFreeSpace_restore(state)
        first == persist.state[SetMin(DOMAIN persist.state)]
    IN  [ end_to_start  |-> (first.end_pointer :> Free_start_pointer(first)),
          sizes         |-> {first},
          tx_changes    |-> <<>>,
          pending_frees |-> <<>>,
          persist       |-> persist,
          panicked      |-> FALSE ]

\* every slot of the restored state goes into the index, the NULL ones too
FreeSpace_new_from_persist_state(state) ==
    LET persist == PersistFreeSpace_restore(state)
        frees == {persist.state[i] : i \in DOMAIN persist.state}
    IN  [ end_to_start  |-> [e \in {f.end_pointer : f \in frees} |->
                               LET i == SetMax({j \in DOMAIN persist.state :
                                                  persist.state[j].end_pointer = e})
                               IN  Free_start_pointer(persist.state[i])],
          sizes         |-> frees,
          tx_changes    |-> <<>>,
          pending_frees |-> <<>>,
          persist       |-> persist,
          panicked      |-> FALSE ]

FreeSpace_persist_state(fs) == fs.persist.state

\* resize(end_pointer, 0)
FreeSpace_remove(fs, end_pointer) ==
    IF end_pointer \in DOMAIN fs.end_to_start
    THEN LET start_pointer == fs.end_to_start[end_pointer]
             free == Free(end_pointer - start_pointer, end_pointer)
         IN  [fs EXCEPT !.end_to_start = MapRemove(@, end_pointer),
                        !.sizes = @ \ {free},
                        !.panicked = @ \/ free \notin fs.sizes,
                        !.persist = PersistFreeSpace_remove(@, free),
                        !.tx_changes = Append(@, Change("Remove", free))]
    ELSE fs

\* the loop of insert: merge with the region that ends at start_pointer, then
\* with the region that starts at end_pointer, until neither exists
RECURSIVE InsertLoop(_, _, _)
InsertLoop(fs, start_pointer, end_pointer) ==
    LET below == {e \in DOMAIN fs.end_to_start : e < end_pointer}
        above == {e \in DOMAIN fs.end_to_start : e >= end_pointer}
    IN  IF below # {} /\ SetMax(below) = start_pointer
        THEN InsertLoop(FreeSpace_remove(fs, SetMax(below)),
                        fs.end_to_start[SetMax(below)], end_pointer)
        ELSE IF above # {} /\ fs.end_to_start[SetMin(above)] = end_pointer
        THEN InsertLoop(FreeSpace_remove(fs, SetMin(above)),
                        start_pointer, SetMin(above))
        ELSE [fs |-> fs, start |-> start_pointer, end |-> end_pointer]

FreeSpace_insert_no_merge(fs, free) ==
    IF free.size = 0 THEN fs
    ELSE [fs EXCEPT !.tx_changes = Append(@, Change("Add", free)),
                    !.end_to_start = MapInsert(@, free.end_pointer, Free_start_pointer(free)),
                    !.sizes = @ \cup {free},
                    !.panicked = @ \/ free.end_pointer \in DOMAIN fs.end_to_start
                                   \/ free \in fs.sizes,
                    !.persist = PersistFreeSpace_add(@, free)]

FreeSpace_insert(fs, free) ==
    IF free.size = 0 THEN fs
    ELSE LET Merged(r) ==
                 LET merged == Free(r.end - r.start, r.end)
                 IN  [r.fs EXCEPT !.tx_changes = Append(@, Change("Add", merged)),
                                  !.end_to_start = MapInsert(@, r.end, r.start),
                                  !.sizes = @ \cup {merged},
                                  !.panicked = @ \/ r.end \in DOMAIN r.fs.end_to_start
                                                 \/ merged \in r.fs.sizes,
                                  !.persist = PersistFreeSpace_add(@, merged)]
         IN  Merged(InsertLoop(fs, free.end_pointer - free.size, free.end_pointer))

FreeSpace_free(fs, space) == [fs EXCEPT !.pending_frees = Append(@, space)]

FreeSpace_resize(fs, end_pointer, new_size) ==
    IF end_pointer \in DOMAIN fs.end_to_start
    THEN IF new_size # 0
         THEN FreeSpace_insert(FreeSpace_remove(fs, end_pointer), Free(new_size, end_pointer))
         ELSE FreeSpace_remove(fs, end_pointer)
    ELSE fs

\* None when the index is empty
FreeSpace_where_to_trim_first(fs) ==
    IF DOMAIN fs.end_to_start \ {0} = {} THEN [some |-> FALSE, pointer |-> 0]
    ELSE [some |-> TRUE, pointer |-> fs.end_to_start[SetMin(DOMAIN fs.end_to_start \ {0})]]

FreeSpace_where_to_trim(fs) ==
    IF DOMAIN fs.end_to_start = {} THEN [some |-> FALSE, pointer |-> 0]
    ELSE [some |-> TRUE, pointer |-> fs.end_to_start[SetMax(DOMAIN fs.end_to_start)]]

RECURSIVE UndoChanges(_)
UndoChanges(fs) ==
    IF fs.tx_changes = <<>> THEN fs
    ELSE LET change == Last(fs.tx_changes)
             free == change.free
             fs1 == [fs EXCEPT !.tx_changes = Front(@)]
         IN  IF change.kind = "Add"
             THEN UndoChanges(
                    [fs1 EXCEPT
                       !.panicked = @ \/ free.end_pointer \notin DOMAIN fs.end_to_start
                                      \/ (free.end_pointer \in DOMAIN fs.end_to_start
                                          /\ fs.end_to_start[free.end_pointer]
                                               # free.end_pointer - free.size)
                                      \/ free \notin fs.sizes,
                       !.end_to_start = MapRemove(@, free.end_pointer),
                       !.sizes = @ \ {free},
                       !.persist = PersistFreeSpace_remove(@, free)])
             ELSE UndoChanges(
                    [fs1 EXCEPT
                       !.panicked = @ \/ free.end_pointer \in DOMAIN fs.end_to_start
                                      \/ free \in fs.sizes,
                       !.end_to_start = MapInsert(@, free.end_pointer, Free_start_pointer(free)),
                       !.sizes = @ \cup {free},
                       !.persist = PersistFreeSpace_add(@, free)])

FreeSpace_tx_fail_rollback_keep_changed(fs) ==
    [UndoChanges(fs) EXCEPT !.pending_frees = <<>>]

FreeSpace_tx_fail_rollback(fs) ==
    [UndoChanges(fs) EXCEPT !.persist = PersistFreeSpace_take_changed_slots(@),
                            !.pending_frees = <<>>]

RECURSIVE InsertAll(_, _)
InsertAll(fs, frees) ==
    IF frees = <<>> THEN fs
    ELSE InsertAll(FreeSpace_insert(fs, Head(frees)), Tail(frees))

\* the changed slots it returns are ApplyPendingChanged(fs)
FreeSpace_apply_pending_frees(fs) ==
    LET fs1 == InsertAll([fs EXCEPT !.pending_frees = <<>>], fs.pending_frees)
    IN  [fs1 EXCEPT !.persist = PersistFreeSpace_take_changed_slots(@)]

ApplyPendingChanged(fs) ==
    InsertAll([fs EXCEPT !.pending_frees = <<>>], fs.pending_frees).persist.changed_slots

FreeSpace_tx_success(fs) == [fs EXCEPT !.tx_changes = <<>>]

\* the region take_for_size picks: the least one, by (size, end_pointer), of
\* those not below (size, 0)
TakeCandidates(fs, size) == {f \in fs.sizes : ~FreeLess(f, Free(size, 0))}

FreeSpace_take_for_size_largest(fs, size) ==
    IF TakeCandidates(fs, size) = {}
    THEN [some |-> FALSE, pointer |-> 0, fs |-> fs]
    ELSE LET free == FreeLast(TakeCandidates(fs, size))
         IN  [some    |-> TRUE,
              pointer |-> Free_start_pointer(free),
              fs      |-> FreeSpace_resize(fs, free.end_pointer, free.size - size)]

FreeSpace_take_for_size(fs, size) ==
    IF TakeCandidates(fs, size) = {}
    THEN [some |-> FALSE, pointer |-> 0, fs |-> fs]
    ELSE LET free == FreeFirst(TakeCandidates(fs, size))
         IN  [some    |-> TRUE,
              pointer |-> Free_start_pointer(free),
              fs      |-> FreeSpace_resize(fs, free.end_pointer, free.size - size)]

(***************************************************************************)
(* The header page (Io). A page is modelled by its two tables: heads, the  *)
(* list-head slots, and frees, the free-region slots; the slots are fixed- *)
(* width little-endian integers, which every u64 round-trips.              *)
(***************************************************************************)
\* the page size the backend reports (Backend::init_page_size)
PageSize == 72

PREAMBLE_LEN == 8

SIZE_OF_FREE == 16

SIZE_OF_POINTER == 8

Pointer_NULL == 0

Pointer_MIN == 1

META_LIST == 0

apportion_first_page(page_size) ==
    LET space_left == page_size - PREAMBLE_LEN
        n_free_slots == space_left \div (2 * SIZE_OF_FREE)
        rounded_free_slot_space == n_free_slots * SIZE_OF_FREE
        list_slot_space == space_left - rounded_free_slot_space
    IN  [n_list_slots |-> list_slot_space \div SIZE_OF_POINTER,
         n_free_slots |-> n_free_slots]

N_LIST == apportion_first_page(PageSize).n_list_slots

N_FREE == apportion_first_page(PageSize).n_free_slots

\* Backend::init_max_size is u64::MAX: the address space is never used up.
\* Here it is a size that the bound MaxData keeps out of reach, and that
\* keeps the trailing region larger than any region inside the file.
\* the largest file of any run
LargestData == SetMax({MaxData, MaxMutData, MaxMapData, MaxIndexData, MaxVecData, MaxDeepData,
                       MaxCellData, MaxRetainData})

init_max_size == PageSize + 2 * LargestData + 1

ZeroPage ==
    [heads |-> [i \in 0..(N_LIST - 1) |-> Pointer_NULL],
     frees |-> [i \in 0..(N_FREE - 1) |-> Free_NULL]]

Io_set_head(page, list_slot, head) == [page EXCEPT !.heads[list_slot] = head]

Io_set_free(page, slot, free) == [page EXCEPT !.frees[slot] = free]

\* None for a slot whose size exceeds its end_pointer
Free_read_from(free) == free.size <= free.end_pointer

Io_pointer_to_file_position(pointer) == pointer + PageSize - 1

Io_file_position_to_pointer(file_pos) == file_pos - PageSize + 1

\* the page Io::init writes: one region from Pointer::MIN in free slot 0
Io_init ==
    Io_set_free(ZeroPage, 0,
                Free_from_start_pointer(Pointer_MIN, init_max_size - PageSize))

(***************************************************************************)
(* The file behind the header page: file_data[p] is the byte at pointer p  *)
(* (file offset p + page_size - 1).                                        *)
(***************************************************************************)
FileLen(data) == PageSize + Len(data)

\* the test backend: Vec::truncate, which never lengthens
Backend_truncate(data, size) ==
    IF size - PageSize < Len(data)
    THEN SubSeq(data, 1, IF size > PageSize THEN size - PageSize ELSE 0)
    ELSE data

\* seek to `pointer` and write `bytes`: a Cursor fills a gap with zeros
WriteAt(data, pointer, bytes) ==
    LET end == pointer + Len(bytes) - 1
        n == IF end > Len(data) THEN end ELSE Len(data)
    IN  [i \in 1..n |->
            IF i >= pointer /\ i <= end THEN bytes[i - pointer + 1]
            ELSE IF i <= Len(data) THEN data[i]
            ELSE 0]

(***************************************************************************)
(* The codec (bincode, varint, little endian). A decoder returns           *)
(* [ok, val, len]: whether it succeeded, the value and the bytes it read.  *)
(***************************************************************************)
\* the third bound is u32::MAX, written by its high half
Pointer_encoded_len(pointer) ==
    IF pointer <= 250 THEN 1
    ELSE IF pointer <= 65535 THEN 3
    ELSE IF pointer \div 65536 <= 65535 THEN 4
    ELSE 5

\* an unsigned integer below 2^16 (the model's files hold nothing larger)
EncodeVarint(u) ==
    IF u <= 250 THEN <<u>> ELSE <<251, u % 256, u \div 256>>

DecodeErr == [ok |-> FALSE, val |-> 0, len |-> 0]

DecodeVarint(data, pos) ==
    IF pos < 1 \/ pos > Len(data) THEN DecodeErr
    ELSE IF data[pos] <= 250 THEN [ok |-> TRUE, val |-> data[pos], len |-> 1]
    ELSE IF data[pos] = 251 /\ pos + 2 <= Len(data)
    THEN [ok |-> TRUE, val |-> data[pos + 1] + 256 * data[pos + 2], len |-> 3]
    ELSE DecodeErr

\* Meta { name: String, slot: ListSlot }
EncodeMeta(name, slot) == EncodeVarint(Len(name)) \o name \o EncodeVarint(slot)

DecodeMeta(data, pos) ==
    LET n == DecodeVarint(data, pos)
        from == pos + n.len
        slot == DecodeVarint(data, from + n.val)
    IN  IF ~n.ok \/ from + n.val - 1 > Len(data) THEN DecodeErr
        ELSE IF \E i \in from..(from + n.val - 1) : data[i] >= 128 THEN DecodeErr
        ELSE IF ~slot.ok THEN DecodeErr
        ELSE [ok  |-> TRUE,
              val |-> [name |-> SubSeq(data, from, from + n.val - 1), slot |-> slot.val],
              len |-> n.len + n.val + slot.len]

\* Mut<u32>: Add(u32) is variant 0, Remap(Remap { from, to }) is variant 1
EncodeAdd(value) == EncodeVarint(0) \o EncodeVarint(value)

EncodeRemap(from, to) == EncodeVarint(1) \o EncodeVarint(from) \o EncodeVarint(to)

DecodeMut(data, pos) ==
    LET tag == DecodeVarint(data, pos)
        x == DecodeVarint(data, pos + tag.len)
        y == DecodeVarint(data, pos + tag.len + x.len)
    IN  IF ~tag.ok \/ ~x.ok THEN DecodeErr
        ELSE IF tag.val = 0
        THEN [ok |-> TRUE, val |-> [kind |-> "Add", value |-> x.val, from |-> 0, to |-> 0],
              len |-> tag.len + x.len]
        ELSE IF tag.val = 1 /\ y.ok
        THEN [ok |-> TRUE, val |-> [kind |-> "Remap", value |-> 0, from |-> x.val, to |-> y.val],
              len |-> tag.len + x.len + y.len]
        ELSE DecodeErr

\* MutNoValue: Add is variant 0, Remove(Remap { from, to }) is variant 1
DecodeMutNoValue(data, pos) ==
    LET tag == DecodeVarint(data, pos)
        x == DecodeVarint(data, pos + tag.len)
        y == DecodeVarint(data, pos + tag.len + x.len)
    IN  IF ~tag.ok THEN DecodeErr
        ELSE IF tag.val = 0
        THEN [ok |-> TRUE, val |-> [kind |-> "Add", value |-> 0, from |-> 0, to |-> 0],
              len |-> tag.len]
        ELSE IF tag.val = 1 /\ x.ok /\ y.ok
        THEN [ok |-> TRUE, val |-> [kind |-> "Remap", value |-> 0, from |-> x.val, to |-> y.val],
              len |-> tag.len + x.len + y.len]
        ELSE DecodeErr

\* the types of the lists: "u32", "Meta", "Mut"; "MutNoValue" reads a Mut
\* without the value of an Add; "Pointer" reads no value (next_pointer)
Decode(ty, data, pos) ==
    IF ty = "Meta" THEN DecodeMeta(data, pos)
    ELSE IF ty = "Mut" THEN DecodeMut(data, pos)
    ELSE IF ty = "MutNoValue" THEN DecodeMutNoValue(data, pos)
    ELSE IF ty = "Pointer" THEN [ok |-> TRUE, val |-> 0, len |-> 0]
    ELSE DecodeVarint(data, pos)

TxIo_encode_entry(value_bytes, prev) == EncodeVarint(prev) \o value_bytes

(***************************************************************************)
(* Entry pointers and handles.                                             *)
(***************************************************************************)
EntryHandle(this_entry, next_entry_possibly_stale, value_len) ==
    [this_entry |-> this_entry,
     next_entry_possibly_stale |-> next_entry_possibly_stale,
     value_len |-> value_len]

EntryHandle_entry_len(handle) ==
    Pointer_encoded_len(handle.next_entry_possibly_stale) + handle.value_len

(***************************************************************************)
(* EntryIter. An iterator is [curr, remap, reverse_remap]; next_with_handle *)
(* returns [some, ok, handle, val, it].                                    *)
(***************************************************************************)
EntryIter_new(curr) == [curr |-> curr, remap |-> <<>>, reverse_remap |-> <<>>]

EntryIter_map_to_current(it, entry_pointer) ==
    IF entry_pointer \in DOMAIN it.remap THEN it.remap[entry_pointer] ELSE entry_pointer

EntryIter_next_with_handle(it, ty, data) ==
    IF it.curr = Pointer_NULL
    THEN [some |-> FALSE, ok |-> TRUE, handle |-> EntryHandle(0, 0, 0), val |-> 0, it |-> it]
    ELSE LET prev == DecodeVarint(data, it.curr)
             it1 == [it EXCEPT !.curr = EntryIter_map_to_current(it, prev.val)]
             Read(value) ==
                 IF ~prev.ok
                 THEN [some |-> TRUE, ok |-> FALSE, handle |-> EntryHandle(0, 0, 0),
                       val |-> 0, it |-> it]
                 ELSE IF ~value.ok
                 THEN [some |-> TRUE, ok |-> FALSE, handle |-> EntryHandle(0, 0, 0),
                       val |-> 0, it |-> it1]
                 ELSE [some |-> TRUE, ok |-> TRUE,
                       handle |-> EntryHandle(it.curr, prev.val, value.len),
                       val |-> value.val, it |-> it1]
         IN  Read(Decode(ty, data, it.curr + prev.len))

EntryIter_remap_forward_only(it, from, to) ==
    [it EXCEPT !.remap = MapInsert(@, from, to)]

EntryIter_remap(it, from, to) ==
    LET to1 == EntryIter_map_to_current(it, to)
        it1 == IF from \in DOMAIN it.reverse_remap
               THEN LET prev_from == it.reverse_remap[from]
                    IN  [it EXCEPT !.remap = MapInsert(@, prev_from, to1),
                                   !.reverse_remap =
                                       MapInsert(MapRemove(@, from), to1, prev_from)]
               ELSE it
    IN  [it1 EXCEPT !.remap = MapInsert(@, from, to1),
                    !.reverse_remap = MapInsert(@, to1, from)]

\* what a traversal gives: the handles and values it yields, whether it ended
\* with an error, every address it sought to, and whether it was cut off
\* (the traversal does not end within `fuel` entries)
IterResult(handles, values, err, seeks, cut) ==
    [handles |-> handles, values |-> values, err |-> err, seeks |-> seeks, cut |-> cut]

\* LinkedListApi::iter: the values of the list from `it` on
RECURSIVE IterValues(_, _, _, _, _)
IterValues(it, ty, data, fuel, acc) ==
    LET Step(n) ==
            IF fuel = 0 THEN [acc EXCEPT !.cut = TRUE]
            ELSE IF ~n.some THEN acc
            ELSE IF ~n.ok THEN [acc EXCEPT !.err = TRUE, !.seeks = Append(@, it.curr)]
            ELSE IterValues(n.it, ty, data, fuel - 1,
                            [acc EXCEPT !.handles = Append(@, n.handle),
                                        !.values = Append(@, n.val),
                                        !.seeks = Append(@, it.curr)])
    IN  Step(EntryIter_next_with_handle(it, ty, data))

\* LinkedListMutApi::iter_handles: Remap entries feed the remap table, Add
\* entries are yielded
RECURSIVE IterHandles(_, _, _, _)
IterHandles(it, data, fuel, acc) ==
    LET Step(n) ==
            IF fuel = 0 THEN [acc EXCEPT !.cut = TRUE]
            ELSE IF ~n.some THEN acc
            ELSE IF ~n.ok THEN [acc EXCEPT !.err = TRUE, !.seeks = Append(@, it.curr)]
            ELSE IF n.val.kind = "Remap"
            THEN IterHandles(EntryIter_remap(n.it, n.val.from, n.val.to), data, fuel - 1,
                             [acc EXCEPT !.seeks = Append(@, it.curr)])
            ELSE IterHandles(n.it, data, fuel - 1,
                             [acc EXCEPT !.handles = Append(@, n.handle),
                                         !.values = Append(@, n.val.value),
                                         !.seeks = Append(@, it.curr)])
    IN  Step(EntryIter_next_with_handle(it, "Mut", data))

Fuel == LargestData + 2

EmptyIter == IterResult(<<>>, <<>>, FALSE, <<>>, FALSE)

LinkedListApi_iter(ty, head, data) ==
    IterValues(EntryIter_new(head), ty, data, Fuel, EmptyIter)

LinkedListMutApi_iter_handles(head, data) ==
    IterHandles(EntryIter_new(head), data, Fuel, EmptyIter)

(***************************************************************************)
(* The state.                                                              *)
(*                                                                         *)
(* The file: file_page is the header page on disk, file_data the bytes     *)
(* behind it.                                                              *)
(* The database object (LlsDb): page_buf is the header page buffer of its  *)
(* Io, slots_by_name, used_slots, list_refs, free_space and indexers are   *)
(* its fields.                                                             *)
(* The running transaction (Transaction, TxIoInner): tx, with              *)
(* changed_heads, tx_slots_by_name, tx_used_slots, tx_list_refs and the    *)
(* starting_length execute recorded (and, for the history, the number of   *)
(* operations of the body so far and its first operation).                 *)
(* phase: where the caller stands: "init"/"load" (a database object was    *)
(* just made), "tx" (inside the body of execute), "commit"/"fail" (execute *)
(* returned Ok/Err), "load_failed" (load returned Err), "panicked".        *)
(*                                                                         *)
(* History kept for the properties:                                        *)
(*   pre: the state when the running (or just failed) transaction began;   *)
(*   live: the entries [start, len] pushed and not popped or unlinked;     *)
(*   b_adds: the handles of the Add entries pushed on the mutable list and *)
(*     not unlinked, oldest first (the handles the caller holds), with     *)
(*     their values; b_gone: the addresses of the unlinked ones, until a   *)
(*     later entry is written over them;                                   *)
(*   body_end: what the body of the last transaction saw and had done at *)
(*     its end; before_load: what was there before the last load;          *)
(*   hist: for the index the caller has built: abs, the content its        *)
(*     operations should have given it (a key-to-value map, or a sequence  *)
(*     of values), and last, the last operation with what it returned.     *)
(*                                                                         *)
(* The unit harness of the free-space manager (freespace.rs, mod test):    *)
(*   fs, spaces: the manager and the spaces it has handed out;             *)
(*   fs_snap: the manager right after the last tx_success (a one-element   *)
(*     sequence, empty before the first), spaces_snap likewise;            *)
(*   fs_last: the last operation of the harness.                           *)
(***************************************************************************)
VARIABLES file_page, file_data, page_buf, slots_by_name, used_slots, list_refs,
          free_space, tx, phase, pre, live, b_adds, b_gone, body_end,
          before_load, indexers, hist, fs, spaces, fs_snap, spaces_snap, fs_last

db_vars == <<file_page, file_data, page_buf, slots_by_name, used_slots, list_refs,
             free_space, tx, phase, pre, live, b_adds, b_gone, body_end,
             before_load, indexers, hist>>

fs_vars == <<fs, spaces, fs_snap, spaces_snap, fs_last>>

vars == <<db_vars, fs_vars>>

(***************************************************************************)
(* The callers of the model: two list names, "a" taken as a                *)
(* LinkedList<u32> and "b" taken as a LinkedListMut<u32>.                  *)
(***************************************************************************)
NameA == <<97>>

NameB == <<98>>

Names == {NameA, NameB}

\* the list under the ordered map, taken as a LinkedList<(u32, u32)>
NameM == <<109>>

\* the keys and values of the indexes
IndexKeys == {1, 2}

IndexValues == {1, 2}

Values == {1}

ListType(name) == IF name = NameB THEN "Mut" ELSE "u32"

\* no index operation yet, nothing in the index
NoHist == [abs |-> <<>>, last |-> [op |-> "none", ret |-> <<>>, expect |-> <<>>]]

NoTx ==
    [changed_heads |-> <<>>, tx_slots_by_name |-> <<>>, tx_used_slots |-> {},
     tx_list_refs |-> {}, starting_length |-> 0, indexers_before_tx |-> 0,
     first |-> "none", popped |-> EntryHandle(0, 0, 0), ops |-> 0,
     \* the Io and the FreeSpace are moved out of the database object
     io_taken |-> FALSE]

SlotInPage(slot) == slot \in 0..(N_LIST - 1)

(***************************************************************************)
(* TxIo: the operations of the transactional I/O, on the running           *)
(* transaction. Each gives the result and the fields it leaves behind:     *)
(* [ok, some, data, changed_heads, free_space, handle, val].               *)
(***************************************************************************)
TxIoInner_curr_head_page(list_slot) == page_buf.heads[list_slot]

TxIoInner_curr_head(list_slot) ==
    IF list_slot \in DOMAIN tx.changed_heads THEN tx.changed_heads[list_slot]
    ELSE page_buf.heads[list_slot]

TxIoResult(ok, some, data, changed_heads, fsp, handle, val) ==
    [ok |-> ok, some |-> some, data |-> data, changed_heads |-> changed_heads,
     free_space |-> fsp, handle |-> handle, val |-> val]

TxIoNothing(ok) ==
    TxIoResult(ok, FALSE, file_data, tx.changed_heads, free_space, EntryHandle(0, 0, 0), 0)

\* a push that moves the head before it knows whether there is room
TxIo_push_head_first(list_slot, value_bytes, extra_space) ==
    LET curr_head == TxIoInner_curr_head(list_slot)
        entry_bytes == TxIo_encode_entry(value_bytes, curr_head)
        Write(taken) ==
            IF ~taken.some
            THEN [TxIoNothing(FALSE) EXCEPT
                     !.changed_heads = MapInsert(tx.changed_heads, list_slot, Pointer_NULL)]
            ELSE TxIoResult(TRUE, TRUE,
                            WriteAt(file_data, taken.pointer, entry_bytes),
                            MapInsert(tx.changed_heads, list_slot, taken.pointer),
                            taken.fs,
                            EntryHandle(taken.pointer, curr_head, Len(value_bytes)),
                            0)
    IN  Write(FreeSpace_take_for_size(free_space, Len(entry_bytes) + extra_space))

\* _push with push_dangling
TxIo_push(list_slot, value_bytes, extra_space) ==
    LET curr_head == TxIoInner_curr_head(list_slot)
        entry_bytes == TxIo_encode_entry(value_bytes, curr_head)
        Write(taken) ==
            IF ~taken.some THEN TxIoNothing(FALSE)
            ELSE TxIoResult(TRUE, TRUE,
                            WriteAt(file_data, taken.pointer, entry_bytes),
                            MapInsert(tx.changed_heads, list_slot, taken.pointer),
                            taken.fs,
                            EntryHandle(taken.pointer, curr_head, Len(value_bytes)),
                            0)
    IN  Write(FreeSpace_take_for_size(free_space, Len(entry_bytes) + extra_space))

TxIo_pop(list_slot, ty) ==
    LET Popped(n) ==
            IF ~n.some THEN TxIoNothing(TRUE)
            ELSE IF ~n.ok THEN TxIoNothing(FALSE)
            ELSE TxIoResult(TRUE, TRUE, file_data,
                            MapInsert(tx.changed_heads, list_slot,
                                      n.handle.next_entry_possibly_stale),
                            FreeSpace_free(free_space,
                                Free_from_start_pointer(n.handle.this_entry,
                                                        EntryHandle_entry_len(n.handle))),
                            n.handle, n.val)
    IN  Popped(EntryIter_next_with_handle(
                   EntryIter_new(TxIoInner_curr_head(list_slot)), ty, file_data))

\* TxIo::free, on what an operation left behind
TxIo_free(r, handle) ==
    [r EXCEPT !.free_space =
        FreeSpace_free(@, Free_from_start_pointer(handle.this_entry,
                                                  EntryHandle_entry_len(handle)))]

LinkedListMutApi_unlink(list_slot, handle) ==
    IF TxIoInner_curr_head(list_slot) = handle.this_entry
    THEN TxIo_pop(list_slot, "Mut")
    ELSE LET Freed(pushed) == IF ~pushed.ok THEN pushed ELSE TxIo_free(pushed, handle)
         IN  Freed(TxIo_push(list_slot,
                             EncodeRemap(handle.this_entry,
                                         handle.next_entry_possibly_stale), 0))

LinkedListMutApi_pop(list_slot) ==
    LET First(it) ==
            IF Len(it.handles) = 0 THEN TxIoNothing(~it.err)
            ELSE LinkedListMutApi_unlink(list_slot, it.handles[1])
    IN  First(LinkedListMutApi_iter_handles(TxIoInner_curr_head(list_slot), file_data))

\* TxIo::pop after earlier operations of the same call: `io` is what they
\* left of the transaction's I/O
TxIo_pop_after(io, list_slot, ty) ==
    LET curr_head == IF list_slot \in DOMAIN io.changed_heads
                     THEN io.changed_heads[list_slot]
                     ELSE page_buf.heads[list_slot]
        Popped(n) ==
            IF ~n.some THEN [io EXCEPT !.ok = TRUE, !.some = FALSE]
            ELSE IF ~n.ok THEN [io EXCEPT !.ok = FALSE, !.some = FALSE]
            ELSE TxIoResult(TRUE, TRUE, io.data,
                            MapInsert(io.changed_heads, list_slot,
                                      n.handle.next_entry_possibly_stale),
                            FreeSpace_free(io.free_space,
                                Free_from_start_pointer(n.handle.this_entry,
                                                        EntryHandle_entry_len(n.handle))),
                            n.handle, n.val)
    IN  Popped(EntryIter_next_with_handle(EntryIter_new(curr_head), ty, io.data))

\* LinkedListApi::clear: pop until pop gives None. The result is
\* [io, popped, cut]: what the pops left of the transaction's I/O, the handles
\* popped in order, and whether the loop was still running after `fuel` pops.
RECURSIVE ClearLoop(_, _, _, _, _)
ClearLoop(io, list_slot, ty, fuel, popped) ==
    IF fuel = 0 THEN [io |-> io, popped |-> popped, cut |-> TRUE]
    ELSE LET p == TxIo_pop_after(io, list_slot, ty)
         IN  IF ~p.ok \/ ~p.some THEN [io |-> p, popped |-> popped, cut |-> FALSE]
             ELSE ClearLoop(p, list_slot, ty, fuel - 1, Append(popped, p.handle))

LinkedListApi_clear(list_slot, ty) ==
    ClearLoop(TxIoNothing(TRUE), list_slot, ty, Fuel, <<>>)

\* LinkedListMutApi::clear is the clear of the LinkedListApi<Mut<T>> inside
LinkedListMutApi_clear(list_slot) == LinkedListApi_clear(list_slot, "Mut")

(***************************************************************************)
(* The indexes (index/btreemap.rs, index/vec.rs) over lists of u32 keys    *)
(* and values. An index store is [kind, list, index, tx_changes]; the      *)
(* database object keeps the stores in indexers. An operation of an index  *)
(* gives [ok, panicked, io, store, ret]: whether it returned Ok, whether   *)
(* it panicked, what it left of the transaction's I/O (as TxIoResult), the *)
(* store after it and what it returned, an Option [some, val].             *)
(***************************************************************************)
EntryHandle_pointer_to_end(handle) == handle.this_entry + EntryHandle_entry_len(handle)

EntryPointer_value_pointer(entry_pointer) ==
    entry_pointer.this_entry + Pointer_encoded_len(entry_pointer.next_entry_possibly_stale)

\* TxIoInner::raw_read_at of a u32: seek to the pointer and decode
TxIo_raw_read_at_zero(data, pointer) == [DecodeVarint(data, pointer) EXCEPT !.val = 0]

TxIo_raw_read_at(data, pointer) == DecodeVarint(data, pointer)

\* TxIoInner::read_at of a Mut<u32>: decode behind the entry's pointer
TxIo_read_at(data, entry_pointer) ==
    LET Handle(value) ==
            [ok     |-> value.ok,
             handle |-> EntryHandle(entry_pointer.this_entry,
                                    entry_pointer.next_entry_possibly_stale, value.len),
             val    |-> value.val]
    IN  Handle(DecodeMut(data, EntryPointer_value_pointer(entry_pointer)))

\* the key is pushed with room for the value, which is written right behind
TxIo_push_kv(list_slot, key_bytes, value_bytes) ==
    LET Written(pushed) ==
            IF ~pushed.ok THEN pushed
            ELSE [pushed EXCEPT !.data =
                     WriteAt(@, EntryHandle_pointer_to_end(pushed.handle), value_bytes)]
    IN  Written(TxIo_push(list_slot, key_bytes, Len(value_bytes)))

IndexResult(ok, panicked, io, store, ret) ==
    [ok |-> ok, panicked |-> panicked, io |-> io, store |-> store, ret |-> ret]

\* BTreeMap::new: the handle seen first (the newest) stays for each key
BTreeMap_new(list_slot) ==
    LET Built(it) ==
            IF it.err \/ it.cut THEN [ok |-> FALSE, store |-> <<>>]
            ELSE [ok    |-> TRUE,
                  store |-> [kind  |-> "BTreeMap",
                             list  |-> list_slot,
                             index |-> [key \in {it.values[i] : i \in DOMAIN it.values} |->
                                          it.handles[SetMin({i \in DOMAIN it.values :
                                                                it.values[i] = key})]],
                             tx_changes |-> <<>>]]
    IN  Built(LinkedListApi_iter("u32", TxIoInner_curr_head(list_slot), file_data))

BTreeMapApi_insert(store, key, value) ==
    LET failed == IndexResult(FALSE, FALSE, TxIoNothing(FALSE), store, [some |-> FALSE, val |-> 0])
        Pushed(pushed, some, prev_value, ret) ==
            IF ~pushed.ok THEN failed
            ELSE IndexResult(TRUE, FALSE, pushed,
                     [store EXCEPT !.index = MapInsert(@, key, pushed.handle),
                                   !.tx_changes = Append(@, [key |-> key, some |-> some,
                                                             prev_value |-> prev_value])],
                     ret)
        Occupied(existing_key_handle, existing_value) ==
            IF ~existing_value.ok THEN failed
            ELSE IF existing_value.val # value
            THEN Pushed(TxIo_push_kv(store.list, EncodeVarint(key), EncodeVarint(value)),
                        TRUE, existing_key_handle,
                        [some |-> TRUE, val |-> existing_value.val])
            ELSE IndexResult(TRUE, FALSE, TxIoNothing(TRUE), store,
                             [some |-> TRUE, val |-> existing_value.val])
    IN  IF key \in DOMAIN store.index
        THEN Occupied(store.index[key],
                      TxIo_raw_read_at(file_data,
                                       EntryHandle_pointer_to_end(store.index[key])))
        ELSE Pushed(TxIo_push_kv(store.list, EncodeVarint(key), EncodeVarint(value)),
                    FALSE, EntryHandle(0, 0, 0), [some |-> FALSE, val |-> 0])

\* [ok, some, val]
BTreeMapApi_get(store, key, data) ==
    IF key \notin DOMAIN store.index THEN [ok |-> TRUE, some |-> FALSE, val |-> 0]
    ELSE LET Got(value) == [ok |-> value.ok, some |-> TRUE, val |-> value.val]
         IN  Got(TxIo_raw_read_at(data, EntryHandle_pointer_to_end(store.index[key])))

BTreeMap_tx_fail_rollback_clear(store) == [store EXCEPT !.tx_changes = <<>>]

RECURSIVE BTreeMap_tx_fail_rollback(_)
BTreeMap_tx_fail_rollback(store) ==
    IF store.tx_changes = <<>> THEN store
    ELSE LET Undone(change) ==
                 [store EXCEPT !.tx_changes = Front(@),
                               !.index = IF change.some
                                         THEN MapInsert(@, change.key, change.prev_value)
                                         ELSE MapRemove(@, change.key)]
         IN  BTreeMap_tx_fail_rollback(Undone(Last(store.tx_changes)))

\* Vec::new: next_pointer from the head, each value pointer pushed to the
\* front
Vec_new(list_slot) ==
    LET Built(it) ==
            IF it.err \/ it.cut THEN [ok |-> FALSE, store |-> <<>>]
            ELSE [ok    |-> TRUE,
                  store |-> [kind  |-> "Vec",
                             list  |-> list_slot,
                             index |-> [i \in DOMAIN it.handles |->
                                          EntryPointer_value_pointer(
                                              it.handles[Len(it.handles) + 1 - i])],
                             tx_changes |-> <<>>]]
    IN  Built(LinkedListApi_iter("Pointer", TxIoInner_curr_head(list_slot), file_data))

VecApi_push(store, value) ==
    LET Pushed(pushed) ==
            IF ~pushed.ok
            THEN IndexResult(FALSE, FALSE, pushed, store, [some |-> FALSE, val |-> 0])
            ELSE IndexResult(TRUE, FALSE, pushed,
                     [store EXCEPT !.tx_changes = Append(@, [kind |-> "Push", pointer |-> 0]),
                                   !.index = Append(@, EntryPointer_value_pointer(pushed.handle))],
                     [some |-> FALSE, val |-> 0])
    IN  Pushed(TxIo_push(store.list, EncodeVarint(value), 0))

\* pop_back().expect("must exist") and assert_eq!(index.len(), 0) panic
VecApi_pop(store) ==
    LET Popped(popped) ==
            IF ~popped.ok
            THEN IndexResult(FALSE, FALSE, popped, store, [some |-> FALSE, val |-> 0])
            ELSE IF popped.some
            THEN IF store.index = <<>>
                 THEN IndexResult(FALSE, TRUE, popped, store, [some |-> FALSE, val |-> 0])
                 ELSE IndexResult(TRUE, FALSE, popped,
                          [store EXCEPT !.index = Front(@),
                                        !.tx_changes = Append(@, [kind |-> "Pop",
                                                                  pointer |-> Last(store.index)])],
                          [some |-> TRUE, val |-> popped.val])
            ELSE IndexResult(TRUE, store.index # <<>>, popped, store,
                             [some |-> FALSE, val |-> 0])
    IN  Popped(TxIo_pop(store.list, "u32"))

\* VecApi::get, with index counted from 1: [ok, some, val]
VecApi_get(store, index, data) ==
    IF index \notin DOMAIN store.index THEN [ok |-> TRUE, some |-> FALSE, val |-> 0]
    ELSE LET Got(value) == [ok |-> value.ok, some |-> TRUE, val |-> value.val]
         IN  Got(TxIo_raw_read_at(data, store.index[index]))

\* the changes are undone newest first: [store, panicked]
Vec_tx_fail_rollback_clear(store) ==
    [store |-> [store EXCEPT !.tx_changes = <<>>], panicked |-> FALSE]

RECURSIVE Vec_tx_fail_rollback(_)
Vec_tx_fail_rollback(store) ==
    IF store.tx_changes = <<>> THEN [store |-> store, panicked |-> FALSE]
    ELSE LET Undone(change) ==
                 IF change.kind = "Push"
                 THEN IF store.index = <<>>
                      THEN [store |-> store, panicked |-> TRUE]
                      ELSE Vec_tx_fail_rollback([store EXCEPT !.tx_changes = Front(@),
                                                              !.index = Front(@)])
                 ELSE Vec_tx_fail_rollback([store EXCEPT !.tx_changes = Front(@),
                                                         !.index = Append(@, change.pointer)])
         IN  Undone(Last(store.tx_changes))

(***************************************************************************)
(* VecRemove, over a LinkedListMut<u32>: the index holds entry pointers    *)
(* [this_entry, next_entry_possibly_stale]; positions count from 1.        *)
(***************************************************************************)
\* LinkedListMutApi::iter_pointers: the tag of each entry is decoded
\* (MutNoValue), a remap with its two pointers, an Add without its value
RECURSIVE IterPointers(_, _, _, _)
IterPointers(it, data, fuel, acc) ==
    LET Step(n) ==
            IF fuel = 0 THEN [acc EXCEPT !.cut = TRUE]
            ELSE IF ~n.some THEN acc
            ELSE IF ~n.ok THEN [acc EXCEPT !.err = TRUE]
            ELSE IF n.val.kind = "Remap"
            THEN IterPointers(EntryIter_remap(n.it, n.val.from, n.val.to), data, fuel - 1, acc)
            ELSE IterPointers(n.it, data, fuel - 1,
                     [acc EXCEPT !.handles =
                         Append(@, [this_entry |-> n.handle.this_entry,
                                    next_entry_possibly_stale |->
                                        n.handle.next_entry_possibly_stale])])
    IN  Step(EntryIter_next_with_handle(it, "MutNoValue", data))

VecRemove_new(list_slot) ==
    LET Built(it) ==
            IF it.err \/ it.cut THEN [ok |-> FALSE, store |-> <<>>]
            ELSE [ok    |-> TRUE,
                  store |-> [kind  |-> "VecRemove",
                             list  |-> list_slot,
                             index |-> [i \in DOMAIN it.handles |->
                                          it.handles[Len(it.handles) + 1 - i]],
                             tx_changes |-> <<>>]]
    IN  Built(IterPointers(EntryIter_new(TxIoInner_curr_head(list_slot)), file_data,
                           Fuel, EmptyIter))

\* [ok, panicked, some, val]: into_value().expect panics on a remap
VecRemoveApi_get(store, index, data) ==
    IF index \notin DOMAIN store.index
    THEN [ok |-> TRUE, panicked |-> FALSE, some |-> FALSE, val |-> 0]
    ELSE LET Got(read) ==
                 [ok       |-> read.ok,
                  panicked |-> read.ok /\ read.val.kind # "Add",
                  some     |-> TRUE,
                  val      |-> IF read.ok THEN read.val.value ELSE 0]
         IN  Got(TxIo_read_at(data, store.index[index]))

VecRemoveApi_push(store, value) ==
    LET Pushed(pushed) ==
            IF ~pushed.ok
            THEN IndexResult(FALSE, FALSE, pushed, store, [some |-> FALSE, val |-> 0])
            ELSE IndexResult(TRUE, FALSE, pushed,
                     [store EXCEPT !.index =
                                       Append(@, [this_entry |-> pushed.handle.this_entry,
                                                  next_entry_possibly_stale |->
                                                      pushed.handle.next_entry_possibly_stale]),
                                   !.tx_changes = Append(@, [kind |-> "Push", i |-> 0,
                                                             pointer |-> <<>>])],
                     [some |-> FALSE, val |-> 0])
    IN  Pushed(TxIo_push(store.list, EncodeAdd(value), 0))

\* the list's pop, then the index's pop_back whatever the list gave
VecRemoveApi_pop(store) ==
    LET Popped(popped) ==
            IF ~popped.ok
            THEN IndexResult(FALSE, FALSE, popped, store, [some |-> FALSE, val |-> 0])
            ELSE IndexResult(TRUE, FALSE, popped,
                     IF store.index = <<>> THEN store
                     ELSE [store EXCEPT !.index = Front(@),
                                        !.tx_changes = Append(@, [kind |-> "Pop", i |-> 0,
                                                                  pointer |-> Last(store.index)])],
                     [some |-> popped.some, val |-> popped.val])
    IN  Popped(LinkedListMutApi_pop(store.list))

\* index[index] panics out of range, into_value().expect on a remap
VecRemoveApi_remove(store, index) ==
    LET nothing == [some |-> FALSE, val |-> 0]
        Unlinked(read, unlinked) ==
            IF ~unlinked.ok THEN IndexResult(FALSE, FALSE, unlinked, store, nothing)
            ELSE IndexResult(TRUE, FALSE, unlinked,
                     [store EXCEPT !.index = RemoveAt(@, index),
                                   !.tx_changes = Append(@, [kind |-> "Remove", i |-> index,
                                                             pointer |-> store.index[index]])],
                     [some |-> TRUE, val |-> read.val.value])
        Read(read) ==
            IF ~read.ok THEN IndexResult(FALSE, FALSE, TxIoNothing(FALSE), store, nothing)
            ELSE IF read.val.kind # "Add"
            THEN IndexResult(FALSE, TRUE, TxIoNothing(FALSE), store, nothing)
            ELSE Unlinked(read, LinkedListMutApi_unlink(store.list, read.handle))
    IN  IF index \notin DOMAIN store.index
        THEN IndexResult(FALSE, TRUE, TxIoNothing(FALSE), store, nothing)
        ELSE Read(TxIo_read_at(file_data, store.index[index]))

\* LinkedListMutApi::unlink after earlier operations of the same call: `io`
\* is what they left of the transaction's I/O
LinkedListMutApi_unlink_after(io, list_slot, handle) ==
    LET curr_head == IF list_slot \in DOMAIN io.changed_heads
                     THEN io.changed_heads[list_slot]
                     ELSE page_buf.heads[list_slot]
        entry_bytes == TxIo_encode_entry(EncodeRemap(handle.this_entry,
                                                     handle.next_entry_possibly_stale),
                                         curr_head)
        Popped(n) ==
            IF ~n.some THEN [io EXCEPT !.ok = TRUE, !.some = FALSE]
            ELSE IF ~n.ok THEN [io EXCEPT !.ok = FALSE]
            ELSE [io EXCEPT !.ok = TRUE, !.some = TRUE,
                            !.changed_heads =
                                MapInsert(@, list_slot, n.handle.next_entry_possibly_stale),
                            !.free_space =
                                FreeSpace_free(@, Free_from_start_pointer(
                                                      n.handle.this_entry,
                                                      EntryHandle_entry_len(n.handle))),
                            !.handle = n.handle,
                            !.val = n.val]
        Pushed(taken) ==
            IF ~taken.some THEN [io EXCEPT !.ok = FALSE]
            ELSE [io EXCEPT !.ok = TRUE, !.some = TRUE,
                            !.data = WriteAt(@, taken.pointer, entry_bytes),
                            !.changed_heads = MapInsert(@, list_slot, taken.pointer),
                            !.free_space =
                                FreeSpace_free(taken.fs, Free_from_start_pointer(
                                                             handle.this_entry,
                                                             EntryHandle_entry_len(handle))),
                            !.handle = EntryHandle(taken.pointer, curr_head,
                                                   Len(entry_bytes)
                                                   - Pointer_encoded_len(curr_head)),
                            !.val = 0]
    IN  IF curr_head = handle.this_entry
        THEN Popped(EntryIter_next_with_handle(EntryIter_new(curr_head), "Mut", io.data))
        ELSE Pushed(FreeSpace_take_for_size(io.free_space, Len(entry_bytes)))

\* the second loop of retain: the elements of to_remove, [i, handle], are
\* unlinked from the back
RECURSIVE VecRemoveApi_retain_unlink(_, _, _)
VecRemoveApi_retain_unlink(io, store, to_remove) ==
    IF to_remove = <<>>
    THEN IndexResult(TRUE, FALSE, io, store, [some |-> FALSE, val |-> 0])
    ELSE LET Unlinked(i, unlinked) ==
                 IF ~unlinked.ok
                 THEN IndexResult(FALSE, FALSE, unlinked, store, [some |-> FALSE, val |-> 0])
                 ELSE VecRemoveApi_retain_unlink(
                          unlinked,
                          [store EXCEPT !.index = RemoveAt(@, i),
                                        !.tx_changes = Append(@, [kind |-> "Remove", i |-> i,
                                                                  pointer |-> store.index[i]])],
                          Front(to_remove))
         IN  Unlinked(Last(to_remove).i,
                      LinkedListMutApi_unlink_after(io, store.list, Last(to_remove).handle))

\* retain with f(value) = (value \in keep): every element is read first (a
\* failed read returns Err, a remap panics), then those to remove are
\* unlinked
VecRemoveApi_retain(store, keep) ==
    LET reads == [i \in DOMAIN store.index |-> TxIo_read_at(file_data, store.index[i])]
        bad == {i \in DOMAIN store.index : ~reads[i].ok \/ reads[i].val.kind # "Add"}
        to_remove == SelectSeq([i \in DOMAIN store.index |->
                                   [i |-> i, handle |-> reads[i].handle,
                                    value |-> reads[i].val.value]],
                               LAMBDA e : e.value \notin keep)
    IN  IF bad # {}
        THEN IndexResult(FALSE, reads[SetMin(bad)].ok, TxIoNothing(FALSE), store,
                         [some |-> FALSE, val |-> 0])
        ELSE VecRemoveApi_retain_unlink(TxIoNothing(TRUE), store, to_remove)

\* drain(..).enumerate(): every element with the position it had
ClearChanges(index) ==
    [k \in DOMAIN index |-> [kind |-> "Remove", i |-> k, pointer |-> index[k]]]

\* VecRemoveApi::clear: the list's clear, then the index is taken and drained
\* into the change log
VecRemoveApi_clear(store) ==
    LET nothing == [some |-> FALSE, val |-> 0]
        Cleared(c) ==
            IF c.cut \/ ~c.io.ok
            THEN IndexResult(FALSE, FALSE, [c.io EXCEPT !.ok = FALSE], store, nothing)
            ELSE IndexResult(TRUE, FALSE, c.io,
                     [store EXCEPT !.index = <<>>,
                                   !.tx_changes = @ \o ClearChanges(store.index)],
                     nothing)
    IN  Cleared(LinkedListMutApi_clear(store.list))

RECURSIVE VecRemove_tx_fail_rollback(_)
VecRemove_tx_fail_rollback(store) ==
    IF store.tx_changes = <<>> THEN [store |-> store, panicked |-> FALSE]
    ELSE LET Undone(change) ==
                 IF change.kind = "Push"
                 THEN IF store.index = <<>>
                      THEN [store |-> store, panicked |-> TRUE]
                      ELSE VecRemove_tx_fail_rollback([store EXCEPT !.tx_changes = Front(@),
                                                                    !.index = Front(@)])
                 ELSE IF change.kind = "Pop"
                 THEN VecRemove_tx_fail_rollback(
                          [store EXCEPT !.tx_changes = Front(@),
                                        !.index = Append(@, change.pointer)])
                 ELSE IF change.i > Len(store.index) + 1
                 THEN [store |-> store, panicked |-> TRUE]
                 ELSE VecRemove_tx_fail_rollback(
                          [store EXCEPT !.tx_changes = Front(@),
                                        !.index = SubSeq(@, 1, change.i - 1)
                                                  \o <<change.pointer>>
                                                  \o SubSeq(@, change.i, Len(@))])
         IN  Undone(Last(store.tx_changes))

(***************************************************************************)
(* Cell (index/cell.rs): a LinkedList<u32> that holds one entry. The store *)
(* keeps the list alone; tx_fail_rollback is the default of the trait,     *)
(* which does nothing.                                                     *)
(***************************************************************************)
\* Cell::new: next_pointer is asked twice; an item that is an Err counts as
\* an item
Cell_new(list_slot) ==
    LET Built(it) ==
            IF Len(it.handles) + (IF it.err \/ it.cut THEN 1 ELSE 0) = 1
            THEN [ok    |-> TRUE,
                  store |-> [kind |-> "Cell", list |-> list_slot, index |-> <<>>,
                             tx_changes |-> <<>>]]
            ELSE [ok |-> FALSE, store |-> <<>>]
    IN  Built(LinkedListApi_iter("Pointer", TxIoInner_curr_head(list_slot), file_data))

\* CellApi::get: list.head(), an empty list is an Err
CellApi_get(store, heads, data) ==
    LET Read(n) == [ok |-> n.some /\ n.ok, val |-> n.val]
    IN  Read(EntryIter_next_with_handle(EntryIter_new(heads[store.list]), "u32", data))

\* the push that follows the pop of replace, on what the pop left:
\* [ok, pushed (the handle of the new entry), io]
CellApi_replace_push(io, list_slot, value_bytes) ==
    LET curr_head == io.changed_heads[list_slot]
        entry_bytes == TxIo_encode_entry(value_bytes, curr_head)
        Write(taken) ==
            IF ~taken.some
            THEN [ok |-> FALSE, pushed |-> EntryHandle(0, 0, 0), io |-> [io EXCEPT !.ok = FALSE]]
            ELSE [ok     |-> TRUE,
                  pushed |-> EntryHandle(taken.pointer, curr_head, Len(value_bytes)),
                  io     |-> [io EXCEPT !.data = WriteAt(@, taken.pointer, entry_bytes),
                                        !.changed_heads =
                                            MapInsert(@, list_slot, taken.pointer),
                                        !.free_space = taken.fs]]
    IN  Write(FreeSpace_take_for_size(io.free_space, Len(entry_bytes)))

\* CellApi::replace: pop, then push; the popped value is returned. The `io`
\* of the result keeps the handle of the popped entry, `pushed` is the handle
\* of the new one.
CellApi_replace(store, value) ==
    LET none == [some |-> FALSE, val |-> 0]
        Replaced(ok, io, pushed, ret) ==
            [ok |-> ok, panicked |-> FALSE, io |-> io, store |-> store, ret |-> ret,
             pushed |-> pushed]
        Pushed(popped, w) ==
            Replaced(w.ok, w.io, w.pushed,
                     IF w.ok THEN [some |-> TRUE, val |-> popped.val] ELSE none)
        Popped(popped) ==
            IF ~popped.ok \/ ~popped.some
            THEN Replaced(FALSE, [popped EXCEPT !.ok = FALSE], EntryHandle(0, 0, 0), none)
            ELSE Pushed(popped, CellApi_replace_push(popped, store.list, EncodeVarint(value)))
    IN  Popped(TxIo_pop(store.list, "u32"))

\* RefCellIndexStore::tx_fail_rollback of a store: [store, panicked]
IndexStore_tx_fail_rollback(store) ==
    IF store.kind = "BTreeMap"
    THEN [store |-> BTreeMap_tx_fail_rollback(store), panicked |-> FALSE]
    ELSE IF store.kind = "Vec" THEN Vec_tx_fail_rollback(store)
    ELSE IF store.kind = "Cell" THEN [store |-> store, panicked |-> FALSE]
    ELSE VecRemove_tx_fail_rollback(store)

\* the failure path that drops the indexers stored by the failed transaction
\* and keeps their lists checked out
LlsDb_execute_err_indexers_keep_refs(stores, indexers_before_tx, refs) ==
    LET Rolled(rolled) ==
            [indexers  |-> [i \in DOMAIN rolled |-> rolled[i].store],
             list_refs |-> refs,
             panicked  |-> \E i \in DOMAIN rolled : rolled[i].panicked]
    IN  Rolled([i \in 1..indexers_before_tx |-> IndexStore_tx_fail_rollback(stores[i])])

\* the failure path of execute on the indexers: those stored by the failed
\* transaction are dropped and give back their lists, the others are rolled
\* back; [indexers, list_refs, panicked]
LlsDb_execute_err_indexers(stores, indexers_before_tx, refs) ==
    LET Rolled(rolled) ==
            [indexers  |-> [i \in DOMAIN rolled |-> rolled[i].store],
             list_refs |-> refs \ {stores[i].list : i \in (indexers_before_tx + 1)..Len(stores)},
             panicked  |-> \E i \in DOMAIN rolled : rolled[i].panicked]
    IN  Rolled([i \in 1..indexers_before_tx |-> IndexStore_tx_fail_rollback(stores[i])])

\* tx_success of every indexer
LlsDb_execute_ok_indexers(stores) ==
    [i \in DOMAIN stores |-> [stores[i] EXCEPT !.tx_changes = <<>>]]

(***************************************************************************)
(* Transaction::take_list with reserve_next_slot. The result:              *)
(* [ok, slot, io (what the push of the Meta record left, if any),          *)
(*  tx_slots_by_name, tx_used_slots, tx_list_refs].                        *)
(***************************************************************************)
FreeListSlots == (0..(N_LIST - 1)) \ (used_slots \cup tx.tx_used_slots)

Transaction_reserve_next_slot ==
    IF FreeListSlots = {} THEN [some |-> FALSE, slot |-> 0]
    ELSE [some |-> TRUE, slot |-> SetMin(FreeListSlots)]

TakeRefs_tx_only(slot, r) ==
    IF slot \in r.tx_list_refs
    THEN [r EXCEPT !.ok = FALSE]
    ELSE [r EXCEPT !.ok = TRUE, !.slot = slot, !.tx_list_refs = @ \cup {slot}]

TakeRefs(slot, r) ==
    IF slot \in list_refs \/ slot \in r.tx_list_refs
    THEN [r EXCEPT !.ok = FALSE]
    ELSE [r EXCEPT !.ok = TRUE, !.slot = slot, !.tx_list_refs = @ \cup {slot}]

Transaction_take_list(list_name) ==
    LET r0 == [ok |-> FALSE, slot |-> 0, io |-> TxIoNothing(TRUE),
               tx_slots_by_name |-> tx.tx_slots_by_name,
               tx_used_slots |-> tx.tx_used_slots,
               tx_list_refs |-> tx.tx_list_refs]
    IN  IF list_name \in DOMAIN slots_by_name
        THEN TakeRefs(slots_by_name[list_name], r0)
        ELSE IF list_name \in DOMAIN tx.tx_slots_by_name
        THEN TakeRefs(tx.tx_slots_by_name[list_name], r0)
        ELSE LET new_slot == Transaction_reserve_next_slot
                 r1 == [r0 EXCEPT !.tx_used_slots = @ \cup {new_slot.slot}]
                 Recorded(pushed) ==
                     IF ~pushed.ok THEN r1
                     ELSE TakeRefs(new_slot.slot,
                            [r1 EXCEPT !.io = pushed,
                                       !.tx_slots_by_name =
                                           MapInsert(@, list_name, new_slot.slot)])
             IN  IF ~new_slot.some THEN r0
                 ELSE Recorded(TxIo_push(META_LIST,
                                         EncodeMeta(list_name, new_slot.slot), 0))

(***************************************************************************)
(* LlsDb::execute after the body: the success path and the failure path.   *)
(***************************************************************************)
SetHeads_none(page, changed_heads) == page

SetHeads(page, changed_heads) ==
    [page EXCEPT !.heads =
        [i \in DOMAIN page.heads |->
            IF i \in DOMAIN changed_heads THEN changed_heads[i] ELSE page.heads[i]]]

SetFrees(page, changed_free_slots, persist_state) ==
    [page EXCEPT !.frees =
        [i \in DOMAIN page.frees |->
            IF i \in changed_free_slots THEN persist_state[i] ELSE page.frees[i]]]

\* [page_buf, file_page, free_space, data, panicked]
LlsDb_execute_ok(page, fsp, changed_heads, data) ==
    LET page1 == SetHeads(page, changed_heads)
        Trimmed(fs2, page2, trim_to) ==
            [page_buf   |-> page2,
             file_page  |-> page2,
             free_space |-> fs2,
             panicked   |-> trim_to.some /\ trim_to.pointer = Pointer_NULL,
             data       |-> IF trim_to.some /\ trim_to.pointer # Pointer_NULL
                            THEN Backend_truncate(data,
                                     Io_pointer_to_file_position(trim_to.pointer))
                            ELSE data]
        Flushed(fs1, changed_free_slots) ==
            IF fs1.panicked \/ fs1.persist.panicked
            THEN \* an assertion of the free-space manager fails before the page
                 \* is written
                 [page_buf |-> page1, file_page |-> file_page, free_space |-> fs1,
                  panicked |-> TRUE, data |-> data]
            ELSE Trimmed(FreeSpace_tx_success(fs1),
                         SetFrees(page1, changed_free_slots, FreeSpace_persist_state(fs1)),
                         FreeSpace_where_to_trim(FreeSpace_tx_success(fs1)))
    IN  Flushed(FreeSpace_apply_pending_frees(fsp), ApplyPendingChanged(fsp))

LlsDb_execute_err_no_rollback(fsp, data, starting_length) ==
    [free_space |-> [fsp EXCEPT !.pending_frees = <<>>],
     data       |-> Backend_truncate(data, starting_length)]

LlsDb_execute_err_no_truncate(fsp, data, starting_length) ==
    [free_space |-> FreeSpace_tx_fail_rollback(fsp),
     data       |-> data]

\* [free_space, data]
LlsDb_execute_err(fsp, data, starting_length) ==
    [free_space |-> FreeSpace_tx_fail_rollback(fsp),
     data       |-> Backend_truncate(data, starting_length)]

\* the body returned Ok and write_first_page failed: the heads and the free
\* slots are set in the header buffer and the pending frees applied, then
\* the failure path runs; [page_buf, free_space, data, panicked]
LlsDb_execute_write_err(page, fsp, changed_heads, data, starting_length) ==
    LET Failed(fs1, changed_free_slots) ==
            IF fs1.panicked \/ fs1.persist.panicked
            THEN [page_buf |-> SetHeads(page, changed_heads), free_space |-> fs1,
                  data |-> data, panicked |-> TRUE]
            ELSE [page_buf   |-> SetFrees(SetHeads(page, changed_heads), changed_free_slots,
                                          FreeSpace_persist_state(fs1)),
                  free_space |-> LlsDb_execute_err(fs1, data, starting_length).free_space,
                  data       |-> LlsDb_execute_err(fs1, data, starting_length).data,
                  panicked   |-> FALSE]
    IN  Failed(FreeSpace_apply_pending_frees(fsp), ApplyPendingChanged(fsp))

\* [ok, list_refs]
LlsDb_get_list(list) ==
    IF list \notin DOMAIN slots_by_name THEN [ok |-> FALSE, list_refs |-> list_refs]
    ELSE IF slots_by_name[list] \in list_refs THEN [ok |-> FALSE, list_refs |-> list_refs]
    ELSE [ok |-> TRUE, list_refs |-> list_refs \cup {slots_by_name[list]}]

(***************************************************************************)
(* LlsDb::load: Io::load, LlsDb::new and the bootstrap transaction that    *)
(* reads the metadata list.                                                *)
(***************************************************************************)
\* HashMap::insert in traversal order: the entry read last stays
MetaMap(metas) ==
    [name \in {metas[i].name : i \in DOMAIN metas} |->
        metas[SetMax({i \in DOMAIN metas : metas[i].name = name})].slot]

LlsDb_load(disk_page, data) ==
    LET valid == \A i \in DOMAIN disk_page.frees : Free_read_from(disk_page.frees[i])
        fs0 == FreeSpace_new_from_persist_state(disk_page.frees)
        nothing == [ok |-> FALSE, panicked |-> FALSE, page_buf |-> disk_page,
                    file_page |-> disk_page, data |-> data, free_space |-> fs0,
                    used_slots |-> {META_LIST}, slots_by_name |-> <<>>]
        Failed(failed) ==
            [nothing EXCEPT !.free_space = failed.free_space, !.data = failed.data]
        Loaded(it, done) ==
            [ok            |-> ~done.panicked,
             panicked      |-> done.panicked,
             page_buf      |-> done.page_buf,
             file_page     |-> done.file_page,
             data          |-> done.data,
             free_space    |-> done.free_space,
             used_slots    |-> {it.values[i].slot : i \in DOMAIN it.values},
             slots_by_name |-> MetaMap(it.values)]
        Bootstrap(it) ==
            IF it.err \/ it.cut
            THEN Failed(LlsDb_execute_err(fs0, data, FileLen(data)))
            ELSE Loaded(it, LlsDb_execute_ok(disk_page, fs0, <<>>, data))
    IN  IF ~valid THEN nothing
        ELSE Bootstrap(LinkedListApi_iter("Meta", disk_page.heads[META_LIST], data))

(***************************************************************************)
(* What a caller sees of the lists.                                        *)
(***************************************************************************)
ObsList(name, slot, heads, data) ==
    IF ~SlotInPage(slot)
    THEN [head |-> 0, values |-> <<>>, err |-> TRUE, cut |-> FALSE]
    ELSE LET Seen_of(r) ==
                 [head |-> heads[slot], values |-> r.values, err |-> r.err, cut |-> r.cut]
         IN  Seen_of(IF ListType(name) = "Mut"
                     THEN LinkedListMutApi_iter_handles(heads[slot], data)
                     ELSE LinkedListApi_iter("u32", heads[slot], data))

Observe(map, heads, data) ==
    [name \in DOMAIN map |-> ObsList(name, map[name], heads, data)]

CurrHeads == [i \in 0..(N_LIST - 1) |-> TxIoInner_curr_head(i)]

\* the names known inside the running transaction
TxSlotsByName == slots_by_name @@ tx.tx_slots_by_name

\* the caller holds the list of `name`: it took it in this transaction or in
\* a committed one of this database object
Holds(name) ==
    /\ name \in DOMAIN TxSlotsByName
    /\ TxSlotsByName[name] \in list_refs \cup tx.tx_list_refs

Snapshot ==
    [page_buf |-> page_buf, slots_by_name |-> slots_by_name, used_slots |-> used_slots,
     list_refs |-> list_refs, free_space |-> free_space, file_page |-> file_page,
     file_data |-> file_data, live |-> live, b_adds |-> b_adds, b_gone |-> b_gone,
     indexers |-> indexers, abs |-> hist.abs, after_load |-> phase = "load"]

Healthy == ~free_space.panicked /\ ~free_space.persist.panicked

LiveEntry(start, len) == [start |-> start, len |-> len]

WithoutEntryAt(entries, start) == {e \in entries : e.start # start}

(***************************************************************************)
(* The unit harness of the free-space manager (run_test): a manager with   *)
(* n_persist slots and one initial region starting at pointer 0.           *)
(***************************************************************************)
\* the database part of the state while the unit harness runs
DbIdle ==
    /\ file_page = <<>>
    /\ file_data = <<>>
    /\ page_buf = <<>>
    /\ slots_by_name = <<>>
    /\ used_slots = {}
    /\ list_refs = {}
    /\ free_space = <<>>
    /\ tx = <<>>
    /\ phase = "unit"
    /\ pre = <<>>
    /\ live = {}
    /\ b_adds = <<>>
    /\ b_gone = {}
    /\ body_end = <<>>
    /\ before_load = <<>>
    /\ indexers = <<>>
    /\ hist = <<>>

FsInit ==
    /\ \E n_persist \in 1..MaxPersist :
          fs = FreeSpace_insert(FreeSpace_new(n_persist),
                                Free_from_start_pointer(0, FsRegion))
    /\ spaces = {}
    /\ fs_snap = <<>>
    /\ spaces_snap = {}
    /\ fs_last = "new"
    /\ DbIdle

\* Action::Take
FsTake(size) ==
    /\ ~fs.panicked /\ ~fs.persist.panicked
    /\ \E r \in {FreeSpace_take_for_size(fs, size)} :
           /\ r.some
           /\ fs' = r.fs
           /\ spaces' = spaces \cup {Free_from_start_pointer(r.pointer, size)}
    /\ fs_last' = "take"
    /\ UNCHANGED <<fs_snap, spaces_snap, db_vars>>

\* Action::Free
FsFree(space) ==
    /\ ~fs.panicked /\ ~fs.persist.panicked
    /\ Cardinality(spaces) > 1
    /\ space \in spaces
    /\ fs' = FreeSpace_free(fs, space)
    /\ spaces' = spaces \ {space}
    /\ fs_last' = "free"
    /\ UNCHANGED <<fs_snap, spaces_snap, db_vars>>

\* apply_pending_frees, then tx_success
FsCommit ==
    /\ ~fs.panicked /\ ~fs.persist.panicked
    /\ fs' = FreeSpace_tx_success(FreeSpace_apply_pending_frees(fs))
    /\ fs_snap' = <<fs'>>
    /\ spaces_snap' = spaces
    /\ fs_last' = "success"
    /\ UNCHANGED <<spaces, db_vars>>

\* apply_pending_frees, then tx_fail_rollback
FsApplyThenRollback ==
    /\ ~fs.panicked /\ ~fs.persist.panicked
    /\ fs' = FreeSpace_tx_fail_rollback(FreeSpace_apply_pending_frees(fs))
    /\ spaces' = spaces_snap
    /\ fs_last' = "apply_rollback"
    /\ UNCHANGED <<fs_snap, spaces_snap, db_vars>>

\* tx_fail_rollback alone, as execute calls it when the body fails
FsRollback ==
    /\ ~fs.panicked /\ ~fs.persist.panicked
    /\ fs' = FreeSpace_tx_fail_rollback(fs)
    /\ spaces' = spaces_snap
    /\ fs_last' = "rollback"
    /\ UNCHANGED <<fs_snap, spaces_snap, db_vars>>

FsNext ==
    \/ \E size \in 1..MaxTake : FsTake(size)
    \/ \E space \in spaces : FsFree(space)
    \/ FsCommit
    \/ FsApplyThenRollback
    \/ FsRollback

FsSpec == FsInit /\ [][FsNext]_vars

(***************************************************************************)
(* The database: LlsDb::init, then transactions (execute) whose bodies     *)
(* take lists, push, pop and unlink, and end in Ok or Err, and reloads of  *)
(* the file (LlsDb::load).                                                 *)
(***************************************************************************)
\* the unit harness while the database runs
FsIdle ==
    /\ fs = <<>>
    /\ spaces = {}
    /\ fs_snap = <<>>
    /\ spaces_snap = {}
    /\ fs_last = "idle"

\* LlsDb::init on an empty backend
Init ==
    /\ file_page = Io_init
    /\ file_data = <<>>
    /\ page_buf = Io_init
    /\ slots_by_name = <<>>
    /\ used_slots = {META_LIST}
    /\ list_refs = {}
    /\ free_space = FreeSpace_new_from_persist_state(Io_init.frees)
    /\ tx = NoTx
    /\ phase = "init"
    /\ pre = <<>>
    /\ live = {}
    /\ b_adds = <<>>
    /\ b_gone = {}
    /\ body_end = <<>>
    /\ before_load = <<>>
    /\ indexers = <<>>
    /\ hist = NoHist
    /\ FsIdle

\* Io::init with the max_size of a backend whose init_max_size leaves
\* SmallSpace bytes after the header page
Io_init_small ==
    Io_set_free(ZeroPage, 0, Free_from_start_pointer(Pointer_MIN, SmallSpace))

\* LlsDb::init on such a backend
SmallInit ==
    /\ file_page = Io_init_small
    /\ file_data = <<>>
    /\ page_buf = Io_init_small
    /\ slots_by_name = <<>>
    /\ used_slots = {META_LIST}
    /\ list_refs = {}
    /\ free_space = FreeSpace_new_from_persist_state(Io_init_small.frees)
    /\ tx = NoTx
    /\ phase = "init"
    /\ pre = <<>>
    /\ live = {}
    /\ b_adds = <<>>
    /\ b_gone = {}
    /\ body_end = <<>>
    /\ before_load = <<>>
    /\ indexers = <<>>
    /\ hist = NoHist
    /\ FsIdle

\* the free slots a header page of a file found on disk can hold
TornFrees == {Free(size, end_pointer) : size \in 0..MaxTornEnd, end_pointer \in 0..MaxTornEnd}

\* a file found on disk and not opened yet: a header page with any table of
\* free slots and with no list, and no entry behind it
TornInit ==
    /\ \E frees \in [0..(N_FREE - 1) -> TornFrees] :
           file_page = [ZeroPage EXCEPT !.frees = frees]
    /\ file_data = <<>>
    /\ page_buf = ZeroPage
    /\ slots_by_name = <<>>
    /\ used_slots = {}
    /\ list_refs = {}
    /\ free_space = FreeSpace_new(N_FREE)
    /\ tx = NoTx
    /\ phase = "closed"
    /\ pre = <<>>
    /\ live = {}
    /\ b_adds = <<>>
    /\ b_gone = {}
    /\ body_end = <<>>
    /\ before_load = <<>>
    /\ indexers = <<>>
    /\ hist = NoHist
    /\ FsIdle

Idle == phase \in {"init", "load", "commit", "fail"}

\* the operations of a body are counted, and the first is kept when it is a
\* pop of the entry stored last
FirstOp(kind, handle) ==
    IF tx.first = "none" /\ kind = "pop"
       /\ handle.this_entry + EntryHandle_entry_len(handle) - 1 = Len(file_data)
    THEN [tx EXCEPT !.first = "poplast", !.popped = handle, !.ops = @ + 1]
    ELSE [tx EXCEPT !.first = "other", !.popped = EntryHandle(0, 0, 0), !.ops = @ + 1]

\* the transaction after an operation of TxIo
TxAfter(t, r) == [t EXCEPT !.changed_heads = r.changed_heads]

Overwritten(addresses, handle) ==
    {g \in addresses :
        g >= handle.this_entry /\ g < handle.this_entry + EntryHandle_entry_len(handle)}

\* what the history keeps of a body when it ends
BodyEnd ==
    [obs        |-> <<>>,
     len_before |-> tx.starting_length,
     first      |-> tx.first,
     popped     |-> tx.popped,
     prev_free  |-> \E f \in free_space.sizes :
                       f.size > 0 /\ f.end_pointer = tx.popped.this_entry,
     changed    |-> DOMAIN tx.changed_heads,
     took       |-> DOMAIN tx.tx_slots_by_name,
     taken      |-> tx.tx_list_refs,
     stored     |-> {indexers[i].list : i \in (tx.indexers_before_tx + 1)..Len(indexers)},
     names      |-> TxSlotsByName,
     grew       |-> FileLen(file_data) > tx.starting_length,
     freed      |-> free_space.pending_frees # <<>>,
     pending    |-> free_space.pending_frees,
     write_failed |-> FALSE,
     changes    |-> IF indexers = <<>> THEN <<>> ELSE indexers[1].tx_changes]

\* execute up to the call of the body
Begin ==
    /\ Idle
    /\ Healthy
    /\ tx' = [NoTx EXCEPT !.starting_length = FileLen(file_data),
                          !.indexers_before_tx = Len(indexers),
                          !.io_taken = TRUE]
    /\ phase' = "tx"
    /\ pre' = Snapshot
    /\ body_end' = <<>>
    /\ before_load' = <<>>
    /\ UNCHANGED <<file_page, file_data, page_buf, slots_by_name, used_slots, list_refs,
                   free_space, live, b_adds, b_gone, indexers, hist, fs_vars>>

\* tx.take_list(name)
TakeList(list_name, max_data) ==
    /\ phase = "tx"
    /\ Healthy
    /\ tx.ops < MaxBody
    /\ \E r \in {Transaction_take_list(list_name)} :
           /\ Len(r.io.data) <= max_data
           /\ file_data' = r.io.data
           /\ free_space' = r.io.free_space
           /\ tx' = [(IF r.io.some THEN FirstOp("push", r.io.handle) ELSE tx)
                        EXCEPT !.changed_heads = r.io.changed_heads,
                               !.tx_slots_by_name = r.tx_slots_by_name,
                               !.tx_used_slots = r.tx_used_slots,
                               !.tx_list_refs = r.tx_list_refs]
           /\ live' = IF r.io.some
                      THEN live \cup {LiveEntry(r.io.handle.this_entry,
                                                EntryHandle_entry_len(r.io.handle))}
                      ELSE live
           /\ b_gone' = IF r.io.some THEN b_gone \ Overwritten(b_gone, r.io.handle)
                        ELSE b_gone
    /\ UNCHANGED <<file_page, page_buf, slots_by_name, used_slots, list_refs, phase, pre,
                   b_adds, body_end, before_load, indexers, hist, fs_vars>>

\* list.api(tx).push(value) on the LinkedList<u32>
Push(value, max_data) ==
    /\ phase = "tx"
    /\ Healthy
    /\ tx.ops < MaxBody
    /\ Holds(NameA)
    /\ SlotInPage(TxSlotsByName[NameA])
    /\ \E r \in {TxIo_push(TxSlotsByName[NameA], EncodeVarint(value), 0)} :
           /\ r.ok
           /\ Len(r.data) <= max_data
           /\ file_data' = r.data
           /\ free_space' = r.free_space
           /\ tx' = TxAfter(FirstOp("push", r.handle), r)
           /\ live' = live \cup {LiveEntry(r.handle.this_entry,
                                           EntryHandle_entry_len(r.handle))}
           /\ b_gone' = b_gone \ Overwritten(b_gone, r.handle)
    /\ UNCHANGED <<file_page, page_buf, slots_by_name, used_slots, list_refs, phase, pre,
                   b_adds, body_end, before_load, indexers, hist, fs_vars>>

\* list.api(tx).pop() on the LinkedList<u32>
Pop ==
    /\ phase = "tx"
    /\ Healthy
    /\ tx.ops < MaxBody
    /\ Holds(NameA)
    /\ SlotInPage(TxSlotsByName[NameA])
    /\ \E r \in {TxIo_pop(TxSlotsByName[NameA], "u32")} :
           /\ r.ok
           /\ r.some
           /\ free_space' = r.free_space
           /\ tx' = TxAfter(FirstOp("pop", r.handle), r)
           /\ live' = WithoutEntryAt(live, r.handle.this_entry)
    /\ UNCHANGED <<file_page, file_data, page_buf, slots_by_name, used_slots, list_refs,
                   phase, pre, b_adds, b_gone, body_end, before_load, indexers, hist, fs_vars>>

\* list.api(tx).push(value) on the LinkedListMut<u32>
MutPush(value, max_data) ==
    /\ phase = "tx"
    /\ Healthy
    /\ tx.ops < MaxBody
    /\ Holds(NameB)
    /\ SlotInPage(TxSlotsByName[NameB])
    /\ \E r \in {TxIo_push(TxSlotsByName[NameB], EncodeAdd(value), 0)} :
           /\ r.ok
           /\ Len(r.data) <= max_data
           /\ file_data' = r.data
           /\ free_space' = r.free_space
           /\ tx' = TxAfter(FirstOp("push", r.handle), r)
           /\ live' = live \cup {LiveEntry(r.handle.this_entry,
                                           EntryHandle_entry_len(r.handle))}
           /\ b_adds' = Append(b_adds, [handle |-> r.handle, value |-> value])
           /\ b_gone' = b_gone \ Overwritten(b_gone, r.handle)
    /\ UNCHANGED <<file_page, page_buf, slots_by_name, used_slots, list_refs, phase, pre,
                   body_end, before_load, indexers, hist, fs_vars>>

\* list.api(tx).unlink(handle) with the handle of the i-th entry held
Unlink(i, max_data) ==
    /\ phase = "tx"
    /\ Healthy
    /\ tx.ops < MaxBody
    /\ Holds(NameB)
    /\ SlotInPage(TxSlotsByName[NameB])
    /\ i \in DOMAIN b_adds
    /\ \E r \in {LinkedListMutApi_unlink(TxSlotsByName[NameB], b_adds[i].handle)} :
       LET handle == b_adds[i].handle
           at_head == TxIoInner_curr_head(TxSlotsByName[NameB]) = handle.this_entry
       IN  /\ r.ok
           /\ r.some
           /\ Len(r.data) <= max_data
           /\ file_data' = r.data
           /\ free_space' = r.free_space
           /\ tx' = TxAfter(FirstOp(IF at_head THEN "pop" ELSE "push", r.handle), r)
           /\ live' = IF at_head
                      THEN WithoutEntryAt(live, r.handle.this_entry)
                      ELSE WithoutEntryAt(live, handle.this_entry)
                           \cup {LiveEntry(r.handle.this_entry,
                                           EntryHandle_entry_len(r.handle))}
           /\ b_adds' = RemoveAt(b_adds, i)
           /\ b_gone' = IF at_head THEN b_gone \cup {handle.this_entry}
                        ELSE (b_gone \ Overwritten(b_gone, r.handle))
                             \cup {handle.this_entry}
    /\ UNCHANGED <<file_page, page_buf, slots_by_name, used_slots, list_refs, phase, pre,
                   body_end, before_load, indexers, hist, fs_vars>>

\* list.api(tx).pop() on the LinkedListMut<u32>: the first entry the
\* iteration yields is unlinked
MutPop(max_data) ==
    /\ phase = "tx"
    /\ Healthy
    /\ tx.ops < MaxBody
    /\ Holds(NameB)
    /\ SlotInPage(TxSlotsByName[NameB])
    /\ \E it \in {LinkedListMutApi_iter_handles(
                        TxIoInner_curr_head(TxSlotsByName[NameB]), file_data)},
          r \in {LinkedListMutApi_pop(TxSlotsByName[NameB])} :
       LET handle == it.handles[1]
           at_head == TxIoInner_curr_head(TxSlotsByName[NameB]) = handle.this_entry
       IN  /\ Len(it.handles) >= 1
           /\ r.ok
           /\ r.some
           /\ Len(r.data) <= max_data
           /\ file_data' = r.data
           /\ free_space' = r.free_space
           /\ tx' = TxAfter(FirstOp(IF at_head THEN "pop" ELSE "push", r.handle), r)
           /\ live' = IF at_head
                      THEN WithoutEntryAt(live, r.handle.this_entry)
                      ELSE WithoutEntryAt(live, handle.this_entry)
                           \cup {LiveEntry(r.handle.this_entry,
                                           EntryHandle_entry_len(r.handle))}
           /\ b_adds' = SelectSeq(b_adds, LAMBDA e : e.handle.this_entry # handle.this_entry)
           /\ b_gone' = IF at_head THEN b_gone \cup {handle.this_entry}
                        ELSE (b_gone \ Overwritten(b_gone, r.handle))
                             \cup {handle.this_entry}
    /\ UNCHANGED <<file_page, page_buf, slots_by_name, used_slots, list_refs, phase, pre,
                   body_end, before_load, indexers, hist, fs_vars>>

\* the body returns Ok: execute flushes the heads and the free slots, writes
\* the header page and trims the file
Commit ==
    /\ phase = "tx"
    /\ Healthy
    /\ \E done \in {LlsDb_execute_ok(page_buf, free_space, tx.changed_heads, file_data)} :
           /\ page_buf' = done.page_buf
           /\ file_page' = done.file_page
           /\ free_space' = done.free_space
           /\ file_data' = done.data
           /\ phase' = IF done.panicked THEN "panicked" ELSE "commit"
    /\ list_refs' = list_refs \cup tx.tx_list_refs
    /\ slots_by_name' = tx.tx_slots_by_name @@ slots_by_name
    /\ used_slots' = used_slots \cup tx.tx_used_slots
    /\ tx' = NoTx
    /\ pre' = <<>>
    /\ indexers' = LlsDb_execute_ok_indexers(indexers)
    /\ body_end' = [BodyEnd EXCEPT !.obs = Observe(TxSlotsByName, CurrHeads, file_data)]
    /\ UNCHANGED <<live, b_adds, b_gone, before_load, hist, fs_vars>>

\* the body returns Err: execute drops the indexers the transaction stored,
\* rolls the others and the free space back, and truncates the file to its
\* length at the start
Fail ==
    /\ phase = "tx"
    /\ Healthy
    /\ \E failed \in {LlsDb_execute_err(free_space, file_data, tx.starting_length)},
          rolled \in {LlsDb_execute_err_indexers(indexers, tx.indexers_before_tx,
                                                 list_refs)} :
           /\ free_space' = failed.free_space
           /\ file_data' = failed.data
           /\ indexers' = rolled.indexers
           /\ list_refs' = rolled.list_refs
           /\ phase' = IF \/ failed.free_space.panicked
                          \/ failed.free_space.persist.panicked
                          \/ rolled.panicked
                       THEN "panicked" ELSE "fail"
    /\ tx' = NoTx
    /\ live' = pre.live
    /\ b_adds' = pre.b_adds
    /\ b_gone' = pre.b_gone
    /\ hist' = [abs  |-> pre.abs,
                \* a retain that is rolled back is no longer the last one
                last |-> IF hist.last.op = "retain" THEN NoHist.last ELSE hist.last]
    /\ body_end' = BodyEnd
    /\ UNCHANGED <<file_page, page_buf, slots_by_name, used_slots, pre,
                   before_load, fs_vars>>

\* the body panics: the unwinding drops the Transaction with the Io and the
\* FreeSpace it holds; execute has no code that runs on this path
BodyPanics ==
    /\ phase = "tx"
    /\ phase' = "panicked"
    /\ UNCHANGED <<file_page, file_data, page_buf, slots_by_name, used_slots, list_refs,
                   free_space, tx, pre, live, b_adds, b_gone, body_end, before_load,
                   indexers, hist, fs_vars>>

\* LlsDb::load of the file: a new database object
LoadFile ==
    /\ \E r \in {LlsDb_load(file_page, file_data)} :
           /\ file_page' = r.file_page
           /\ file_data' = r.data
           /\ page_buf' = r.page_buf
           /\ slots_by_name' = r.slots_by_name
           /\ used_slots' = r.used_slots
           /\ free_space' = r.free_space
           /\ phase' = IF r.panicked THEN "panicked"
                       ELSE IF r.ok THEN "load" ELSE "load_failed"
    /\ list_refs' = {}
    /\ tx' = NoTx
    /\ pre' = <<>>
    /\ body_end' = <<>>
    /\ before_load' = [slots_by_name |-> slots_by_name,
                       obs |-> Observe(slots_by_name, page_buf.heads, file_data),
                       frees |-> file_page.frees]
    /\ indexers' = <<>>
    /\ hist' = [hist EXCEPT !.last = NoHist.last]
    /\ UNCHANGED <<live, b_adds, b_gone, fs_vars>>

\* the database object is dropped and the file is opened again with
\* LlsDb::load
Reload == Idle /\ LoadFile

\* LlsDb::load of a file that no object of this run has written
OpenFile == phase = "closed" /\ LoadFile

\* db.get_list(name), between transactions
GetList(list_name) ==
    /\ Idle
    /\ Healthy
    /\ \E r \in {LlsDb_get_list(list_name)} :
           /\ r.ok
           /\ list_refs' = r.list_refs
    /\ UNCHANGED <<file_page, file_data, page_buf, slots_by_name, used_slots, free_space, tx,
                   phase, pre, live, b_adds, b_gone, body_end, before_load, indexers, hist,
                   fs_vars>>

\* the body returns Ok and write_first_page fails: execute has set the heads
\* and the free slots in the header buffer and takes the failure path; of
\* the page on disk nothing or only the table of heads was written
HeaderWriteFails ==
    /\ phase = "tx"
    /\ Healthy
    /\ \E failed \in {LlsDb_execute_write_err(page_buf, free_space, tx.changed_heads,
                                              file_data, tx.starting_length)},
          rolled \in {LlsDb_execute_err_indexers(indexers, tx.indexers_before_tx,
                                                 list_refs)} :
           /\ page_buf' = failed.page_buf
           /\ file_page' \in {file_page, [file_page EXCEPT !.heads = failed.page_buf.heads]}
           /\ free_space' = failed.free_space
           /\ file_data' = failed.data
           /\ indexers' = rolled.indexers
           /\ list_refs' = rolled.list_refs
           /\ phase' = IF failed.panicked \/ rolled.panicked THEN "panicked" ELSE "fail"
    /\ tx' = NoTx
    /\ live' = pre.live
    /\ b_adds' = pre.b_adds
    /\ b_gone' = pre.b_gone
    /\ hist' = [hist EXCEPT !.abs = pre.abs]
    /\ body_end' = [BodyEnd EXCEPT !.write_failed = TRUE]
    /\ UNCHANGED <<slots_by_name, used_slots, pre, before_load, fs_vars>>

\* tx.store_index(BTreeMap::new(list, &tx)?), and the same with Vec::new and
\* VecRemove::new, on a list the caller holds and has given to no index
StoreIndex(kind, list_name) ==
    /\ phase = "tx"
    /\ Healthy
    /\ tx.ops < MaxBody
    /\ Holds(list_name)
    /\ SlotInPage(TxSlotsByName[list_name])
    /\ \A i \in DOMAIN indexers : indexers[i].list # TxSlotsByName[list_name]
    /\ \E r \in {IF kind = "BTreeMap" THEN BTreeMap_new(TxSlotsByName[list_name])
                 ELSE IF kind = "Vec" THEN Vec_new(TxSlotsByName[list_name])
                 ELSE VecRemove_new(TxSlotsByName[list_name])} :
           /\ r.ok
           /\ indexers' = Append(indexers, r.store)
    /\ tx' = FirstOp("index", EntryHandle(0, 0, 0))
    /\ hist' = [hist EXCEPT !.last = [op |-> "new", ret |-> <<>>, expect |-> <<>>]]
    /\ UNCHANGED <<file_page, file_data, page_buf, slots_by_name, used_slots, list_refs,
                   free_space, phase, pre, live, b_adds, b_gone, body_end, before_load,
                   fs_vars>>

\* the caller's handle is of the first indexer; tx.take_index(handle) gives
\* its api
HasIndex(kind) == Len(indexers) >= 1 /\ indexers[1].kind = kind

\* what an operation of an index leaves: the I/O of the transaction and the
\* store
IndexOpDone(r, op, max_data) ==
    /\ r.ok \/ r.panicked
    /\ Len(r.io.data) <= max_data
    /\ file_data' = r.io.data
    /\ free_space' = r.io.free_space
    /\ tx' = TxAfter(FirstOp(op, r.io.handle), r.io)
    /\ indexers' = [indexers EXCEPT ![1] = r.store]
    /\ phase' = IF r.panicked THEN "panicked" ELSE phase
    /\ UNCHANGED <<file_page, page_buf, slots_by_name, used_slots, list_refs, pre, live,
                   b_adds, b_gone, body_end, before_load, fs_vars>>

\* map.insert(key, &value)
BTreeInsert(key, value, max_data) ==
    /\ phase = "tx"
    /\ Healthy
    /\ tx.ops < MaxBody
    /\ HasIndex("BTreeMap")
    /\ \E r \in {BTreeMapApi_insert(indexers[1], key, value)} :
           /\ IndexOpDone(r, "push", max_data)
           /\ hist' = [abs  |-> MapInsert(hist.abs, key, value),
                       last |-> [op     |-> "insert",
                                 arg    |-> <<key, value>>,
                                 ret    |-> r.ret,
                                 expect |-> IF key \in DOMAIN hist.abs
                                            THEN [some |-> TRUE, val |-> hist.abs[key]]
                                            ELSE [some |-> FALSE, val |-> 0]]]

\* vec.push(&value)
VecPush(value, max_data) ==
    /\ phase = "tx"
    /\ Healthy
    /\ tx.ops < MaxBody
    /\ HasIndex("Vec")
    /\ \E r \in {VecApi_push(indexers[1], value)} :
           /\ IndexOpDone(r, "push", max_data)
           /\ hist' = [abs  |-> Append(hist.abs, value),
                       last |-> [op |-> "push", ret |-> r.ret,
                                 expect |-> [some |-> FALSE, val |-> 0]]]

\* vec.pop()
VecPop(max_data) ==
    /\ phase = "tx"
    /\ Healthy
    /\ tx.ops < MaxBody
    /\ HasIndex("Vec")
    /\ \E r \in {VecApi_pop(indexers[1])} :
           /\ IndexOpDone(r, "pop", max_data)
           /\ hist' = [abs  |-> IF hist.abs = <<>> THEN <<>> ELSE Front(hist.abs),
                       last |-> [op |-> "pop", ret |-> r.ret,
                                 expect |-> IF hist.abs = <<>>
                                            THEN [some |-> FALSE, val |-> 0]
                                            ELSE [some |-> TRUE, val |-> Last(hist.abs)]]]

\* vec.push(value) on the VecRemove
VecRemovePush(value, max_data) ==
    /\ phase = "tx"
    /\ Healthy
    /\ tx.ops < MaxBody
    /\ HasIndex("VecRemove")
    /\ \E r \in {VecRemoveApi_push(indexers[1], value)} :
           /\ IndexOpDone(r, "push", max_data)
           /\ hist' = [hist EXCEPT !.last = [op |-> "push", ret |-> r.ret, expect |-> <<>>]]

\* vec.pop() on the VecRemove
VecRemovePop(max_data) ==
    /\ phase = "tx"
    /\ Healthy
    /\ tx.ops < MaxBody
    /\ HasIndex("VecRemove")
    /\ \E r \in {VecRemoveApi_pop(indexers[1])} :
           /\ IndexOpDone(r, "pop", max_data)
           /\ hist' = [hist EXCEPT !.last = [op |-> "pop", ret |-> r.ret, expect |-> <<>>]]

\* vec.remove(index) with index in range
VecRemoveRemove(index, max_data) ==
    /\ phase = "tx"
    /\ Healthy
    /\ tx.ops < MaxBody
    /\ HasIndex("VecRemove")
    /\ index \in DOMAIN indexers[1].index
    /\ \E r \in {VecRemoveApi_remove(indexers[1], index)} :
           /\ IndexOpDone(r, "remove", max_data)
           /\ hist' = [hist EXCEPT !.last = [op |-> "remove", ret |-> r.ret, expect |-> <<>>]]

\* what the history keeps of a call of retain: the values get gave before the
\* call for which f returns true, in their order; whether the call is the
\* first operation of its body; whether the dropped elements are the
\* trailing ones of the sequence; the encoded length of their entries;
\* whether these entries are the last bytes of the file; whether each of
\* them is the head of the list once those behind it are popped
RetainExpect(store, keep) ==
    LET reads == [i \in DOMAIN store.index |-> TxIo_read_at(file_data, store.index[i])]
        dropped == {i \in DOMAIN store.index : reads[i].val.value \notin keep}
        bytes(i) == store.index[i].this_entry
                    .. (EntryHandle_pointer_to_end(reads[i].handle) - 1)
        RECURSIVE Total(_)
        Total(S) == IF S = {} THEN 0
                    ELSE LET i == CHOOSE i \in S : TRUE
                         IN  EntryHandle_entry_len(reads[i].handle) + Total(S \ {i})
    IN  [seen        |-> SelectSeq([i \in DOMAIN store.index |-> reads[i].val.value],
                                   LAMBDA value : value \in keep),
         first       |-> tx.ops = 0,
         trailing    |-> \A i \in dropped : \A j \in DOMAIN store.index :
                             j > i => j \in dropped,
         dropped_len |-> Total(dropped),
         at_end      |-> UNION {bytes(i) : i \in dropped}
                         = (Len(file_data) - Total(dropped) + 1) .. Len(file_data),
         newest      |-> \A i \in dropped :
                             store.index[i].this_entry
                             = IF i = Len(store.index)
                               THEN TxIoInner_curr_head(store.list)
                               ELSE DecodeVarint(file_data,
                                                 store.index[i + 1].this_entry).val]

\* vec.retain(|value| keep.contains(&value)), when it removes something
VecRemoveRetain(keep, max_data) ==
    /\ phase = "tx"
    /\ Healthy
    /\ tx.ops < MaxBody
    /\ HasIndex("VecRemove")
    /\ \E r \in {VecRemoveApi_retain(indexers[1], keep)} :
           /\ r.store # indexers[1] \/ r.panicked
           /\ IndexOpDone(r, "retain", max_data)
           /\ hist' = [hist EXCEPT !.last = [op |-> "retain", ret |-> r.ret,
                                             expect |-> RetainExpect(indexers[1], keep)]]

VecRemoveClear(max_data) ==
    /\ phase = "tx"
    /\ Healthy
    /\ tx.ops < MaxBody
    /\ HasIndex("VecRemove")
    /\ \E r \in {VecRemoveApi_clear(indexers[1])} :
           /\ IndexOpDone(r, "clear", max_data)
           /\ hist' = [hist EXCEPT !.last = [op |-> "clear", ret |-> r.ret, expect |-> <<>>]]

\* Cell::new(list, tx) and tx.store_index(cell); the history starts with the
\* value the list holds
StoreCell(list_name) ==
    /\ phase = "tx"
    /\ Healthy
    /\ tx.ops < MaxBody
    /\ Holds(list_name)
    /\ SlotInPage(TxSlotsByName[list_name])
    /\ indexers = <<>>
    /\ \E r \in {Cell_new(TxSlotsByName[list_name])} :
           /\ r.ok
           /\ indexers' = Append(indexers, r.store)
           /\ hist' = [abs  |-> <<CellApi_get(r.store, CurrHeads, file_data).val>>,
                       last |-> [op |-> "new", ret |-> <<>>, expect |-> <<>>]]
    /\ tx' = FirstOp("index", EntryHandle(0, 0, 0))
    /\ UNCHANGED <<file_page, file_data, page_buf, slots_by_name, used_slots, list_refs,
                   free_space, phase, pre, live, b_adds, b_gone, body_end, before_load,
                   fs_vars>>

\* cell.replace(value); the history keeps what get gave right before
CellReplace(value, max_data) ==
    /\ phase = "tx"
    /\ Healthy
    /\ tx.ops < MaxBody
    /\ HasIndex("Cell")
    /\ \E r \in {CellApi_replace(indexers[1], value)} :
           /\ r.ok
           /\ Len(r.io.data) <= max_data
           /\ file_data' = r.io.data
           /\ free_space' = r.io.free_space
           /\ tx' = TxAfter(FirstOp("replace", r.io.handle), r.io)
           /\ live' = WithoutEntryAt(live, r.io.handle.this_entry)
                          \cup {LiveEntry(r.pushed.this_entry, EntryHandle_entry_len(r.pushed))}
           /\ b_gone' = b_gone \ Overwritten(b_gone, r.pushed)
           /\ hist' = [abs  |-> <<value>>,
                       last |-> [op |-> "replace", ret |-> r.ret,
                                 expect |-> [get |-> CellApi_get(indexers[1], CurrHeads,
                                                                 file_data),
                                             abs |-> hist.abs]]]
    /\ UNCHANGED <<file_page, page_buf, slots_by_name, used_slots, list_refs, phase, pre,
                   b_adds, body_end, before_load, indexers, fs_vars>>

Next ==
    \/ Begin
    \/ \E list_name \in Names : TakeList(list_name, MaxData)
    \/ \E value \in Values : Push(value, MaxData)
    \/ Pop
    \/ \E value \in Values : MutPush(value, MaxData)
    \/ \E i \in 1..MaxData : Unlink(i, MaxData)
    \/ MutPop(MaxData)
    \/ Commit
    \/ Fail
    \/ Reload
    \/ \E list_name \in Names : GetList(list_name)

Spec == Init /\ [][Next]_vars

\* one session (no reload) with the mutable list alone, in a larger file
MutNext ==
    \/ Begin
    \/ TakeList(NameB, MaxMutData)
    \/ \E value \in Values : MutPush(value, MaxMutData)
    \/ \E i \in 1..MaxMutData : Unlink(i, MaxMutData)
    \/ MutPop(MaxMutData)
    \/ Commit
    \/ Fail

MutSpec == Init /\ [][MutNext]_vars

\* sessions with an ordered map over the list "m"
MapNext ==
    \/ Begin
    \/ TakeList(NameM, MaxMapData)
    \/ StoreIndex("BTreeMap", NameM)
    \/ \E key \in IndexKeys, value \in IndexValues : BTreeInsert(key, value, MaxMapData)
    \/ Commit
    \/ Fail
    \/ Reload

MapSpec == Init /\ [][MapNext]_vars

\* sessions with a Vec over the list "a"
VecNext ==
    \/ Begin
    \/ TakeList(NameA, MaxVecData)
    \/ StoreIndex("Vec", NameA)
    \/ \E value \in IndexValues : VecPush(value, MaxVecData)
    \/ VecPop(MaxVecData)
    \/ Commit
    \/ Fail

VecSpec == Init /\ [][VecNext]_vars

\* sessions with a Vec over the list "a" on a database that is also dropped
\* and loaded again
VecLoadNext ==
    \/ Begin
    \/ TakeList(NameA, MaxFailData)
    \/ StoreIndex("Vec", NameA)
    \/ \E value \in IndexValues : VecPush(value, MaxFailData)
    \/ VecPop(MaxFailData)
    \/ Commit
    \/ Fail
    \/ Reload

VecLoadSpec == Init /\ [][VecLoadNext]_vars

\* the same sessions when the write of the header page can fail
WriteFailNext ==
    \/ Begin
    \/ TakeList(NameA, MaxFailData)
    \/ StoreIndex("Vec", NameA)
    \/ \E value \in IndexValues : VecPush(value, MaxFailData)
    \/ VecPop(MaxFailData)
    \/ Commit
    \/ Fail
    \/ HeaderWriteFails

WriteFailSpec == Init /\ [][WriteFailNext]_vars

\* sessions with a VecRemove over the mutable list "b"
VecRemoveNext ==
    \/ Begin
    \/ TakeList(NameB, MaxIndexData)
    \/ StoreIndex("VecRemove", NameB)
    \/ \E value \in IndexValues : VecRemovePush(value, MaxIndexData)
    \/ VecRemovePop(MaxIndexData)
    \/ \E index \in 1..MaxIndexData : VecRemoveRemove(index, MaxIndexData)
    \/ \E keep \in SUBSET IndexValues : VecRemoveRetain(keep, MaxIndexData)
    \/ Commit
    \/ Fail

VecRemoveSpec == Init /\ [][VecRemoveNext]_vars

\* the removable sequence with clear
VecClearNext ==
    \/ Begin
    \/ TakeList(NameB, MaxIndexData)
    \/ StoreIndex("VecRemove", NameB)
    \/ \E value \in IndexValues : VecRemovePush(value, MaxIndexData)
    \/ VecRemovePop(MaxIndexData)
    \/ \E index \in 1..MaxIndexData : VecRemoveRemove(index, MaxIndexData)
    \/ VecRemoveClear(MaxIndexData)
    \/ Commit
    \/ Fail

VecClearSpec == Init /\ [][VecClearNext]_vars

\* longer sessions with a VecRemove over the mutable list "b": push, pop and
\* remove of the first element
VecRemoveDeepNext ==
    \/ Begin
    \/ TakeList(NameB, MaxDeepData)
    \/ StoreIndex("VecRemove", NameB)
    \/ \E value \in IndexValues :
           tx.ops < MaxDeepBody /\ VecRemovePush(value, MaxDeepData)
    \/ tx.ops < MaxDeepBody /\ VecRemovePop(MaxDeepData)
    \/ tx.ops < MaxDeepBody /\ VecRemoveRemove(1, MaxDeepData)
    \/ Commit
    \/ Fail

VecRemoveDeepSpec == Init /\ [][VecRemoveDeepNext]_vars

\* the longer sessions again, in a larger file, without failing bodies and
\* with retain(|value| value == 2)
RetainDeepNext ==
    \/ Begin
    \/ TakeList(NameB, MaxRetainData)
    \/ StoreIndex("VecRemove", NameB)
    \/ \E value \in IndexValues :
           tx.ops < MaxDeepBody /\ VecRemovePush(value, MaxRetainData)
    \/ tx.ops < MaxDeepBody /\ VecRemovePop(MaxRetainData)
    \/ tx.ops < MaxDeepBody /\ VecRemoveRetain({2}, MaxRetainData)
    \/ tx.ops < MaxDeepBody /\ VecRemoveRemove(1, MaxRetainData)
    \/ Commit

RetainDeepSpec == Init /\ [][RetainDeepNext]_vars

\* the mutable list in longer sessions of short transactions that commit,
\* with at most MaxHeld entries on the list
UnlinkDeepNext ==
    \/ Begin
    \/ TakeList(NameB, MaxRetainData)
    \/ \E value \in Values :
           tx.ops < MaxDeepBody /\ Len(b_adds) < MaxHeld /\ MutPush(value, MaxRetainData)
    \/ \E i \in 1..MaxHeld : tx.ops < MaxDeepBody /\ Unlink(i, MaxRetainData)
    \/ tx.ops < MaxDeepBody /\ MutPop(MaxRetainData)
    \/ Commit

UnlinkDeepSpec == Init /\ [][UnlinkDeepNext]_vars

\* the same sessions on the mutable list, followed by pushes on the immutable
\* list and pops of the mutable one once the immutable list is taken
MixedDeepNext ==
    \/ Begin
    \/ \E list_name \in Names : TakeList(list_name, MaxRetainData)
    \/ \E value \in Values : tx.ops < MaxDeepBody /\ Push(value, MaxRetainData)
    \/ \E value \in Values :
           /\ tx.ops < MaxDeepBody
           /\ Len(b_adds) < MaxHeld
           /\ NameA \notin DOMAIN TxSlotsByName
           /\ MutPush(value, MaxRetainData)
    \/ \E i \in 1..MaxHeld :
           /\ tx.ops < MaxDeepBody
           /\ NameA \notin DOMAIN TxSlotsByName
           /\ Unlink(i, MaxRetainData)
    \/ tx.ops < MaxDeepBody /\ MutPop(MaxRetainData)
    \/ Commit

MixedDeepSpec == Init /\ [][MixedDeepNext]_vars

\* the mutable list on the small backend: the entries can use up the
\* address space
SmallNext ==
    \/ Begin
    \/ TakeList(NameB, SmallSpace)
    \/ \E value \in Values : MutPush(value, SmallSpace)
    \/ \E i \in 1..SmallSpace : Unlink(i, SmallSpace)
    \/ MutPop(SmallSpace)
    \/ Commit
    \/ Fail
    \/ Reload

SmallSpec == SmallInit /\ [][SmallNext]_vars

\* sessions with the list a where the body of a transaction can panic
PanicNext ==
    \/ Begin
    \/ TakeList(NameA, MaxData)
    \/ \E value \in Values : Push(value, MaxData)
    \/ Pop
    \/ Commit
    \/ Fail
    \/ BodyPanics

PanicSpec == Init /\ [][PanicNext]_vars

\* a file found on disk is loaded and the list a is used
TornNext ==
    \/ OpenFile
    \/ Begin
    \/ TakeList(NameA, MaxFailData)
    \/ \E value \in Values : Push(value, MaxFailData)
    \/ Pop
    \/ Commit
    \/ Fail

TornSpec == TornInit /\ [][TornNext]_vars

\* sessions with two indexes, a Vec over the list a and a BTreeMap over the
\* list m, stored in the same or in different transactions
RegistryNext ==
    \/ Begin
    \/ \E list_name \in {NameA, NameM} : TakeList(list_name, MaxVecData)
    \/ StoreIndex("Vec", NameA)
    \/ StoreIndex("BTreeMap", NameM)
    \/ \E value \in IndexValues : VecPush(value, MaxVecData)
    \/ VecPop(MaxVecData)
    \/ Commit
    \/ Fail

RegistrySpec == Init /\ [][RegistryNext]_vars

\* the sessions with a Cell over the list a; the caller pushes and pops on
\* the list while no Cell owns it, and the database can be loaded again
CellNext ==
    \/ Begin
    \/ TakeList(NameA, MaxCellData)
    \/ \E value \in Values : indexers = <<>> /\ Push(value, MaxCellData)
    \/ indexers = <<>> /\ Pop
    \/ StoreCell(NameA)
    \/ \E value \in IndexValues : CellReplace(value, MaxCellData)
    \/ Commit
    \/ Fail
    \/ Reload

CellSpec == Init /\ [][CellNext]_vars

(***************************************************************************)
(* Properties of the free-space manager.                                   *)
(***************************************************************************)
Regions(f) == f.sizes

SlotRegions(f) == {f.persist.state[i] : i \in DOMAIN f.persist.state} \ {Free_NULL}

\* the n greatest members of S under (size, end_pointer)
Greatest(S, n) == {x \in S : Cardinality({y \in S : FreeLess(x, y)}) < n}

Adjacent(a, b) == a.end_pointer = Free_start_pointer(b) \/ b.end_pointer = Free_start_pointer(a)

NoAdjacentRegions(f) ==
    \A a \in Regions(f) : \A b \in Regions(f) : a # b => ~Adjacent(a, b)

SnapshotIsGreatest(f) ==
    LET n == Cardinality(DOMAIN f.persist.state)
    IN  /\ Cardinality(SlotRegions(f)) <= n
        /\ SlotRegions(f) = Greatest(Regions(f), n)

\* C7: after a tx_success, any takes and frees followed by apply_pending_frees
\* and tx_fail_rollback leave the whole free-space state as it was right after
\* that tx_success.
C7_RollbackRestores ==
    (fs_last = "apply_rollback" /\ fs_snap # <<>>) => fs = fs_snap[1]

C7_Witness ==
    /\ fs_last = "apply_rollback"
    /\ fs_snap # <<>>
    /\ fs.persist.unplaced_queue # {}
    /\ Cardinality(spaces) >= 2

\* C8: no two distinct free regions of the manager are adjacent.
C8_NoAdjacent == NoAdjacentRegions(fs)

C8_Witness ==
    /\ fs_last = "success"
    /\ Cardinality(Regions(fs)) >= 2
    /\ \E f \in Regions(fs) : f.size >= 2 /\ f.end_pointer < FsRegion

Seen == Observe(slots_by_name, page_buf.heads, file_data)

InRegion(pointer, f) == Free_start_pointer(f) <= pointer /\ pointer < f.end_pointer

\* the start of the free region of greatest end_pointer
TrimPoint(f) ==
    Free_start_pointer(CHOOSE r \in f.sizes : \A q \in f.sizes : q.end_pointer <= r.end_pointer)

InEntry(pointer, e) == e.start <= pointer /\ pointer < e.start + e.len

\* C1: after a transaction whose body returned an error, every list's head as
\* the next transaction sees it, the head and free-slot tables of the header
\* buffer, the name-to-slot map, the free-space manager and the file length
\* equal their values right before the transaction.
C1_RollbackFaithful ==
    phase = "fail" =>
        /\ tx.changed_heads = <<>>
        /\ page_buf = pre.page_buf
        /\ slots_by_name = pre.slots_by_name
        /\ free_space = pre.free_space
        /\ FileLen(file_data) = FileLen(pre.file_data)

C1_Witness ==
    /\ phase = "fail"
    /\ body_end.grew
    /\ body_end.freed
    /\ body_end.took # {}
    /\ Cardinality(body_end.changed) >= 2

C3_LoadReproduces ==
    /\ phase # "load_failed"
    /\ phase = "load" =>
          /\ slots_by_name = before_load.slots_by_name
          /\ Seen = before_load.obs

\* C4: on a mutable list (in a slot other than the metadata slot), after any
\* pushes and unlinks, iteration from the head yields exactly the Add entries
\* pushed and not unlinked, newest first, and never seeks to the address of
\* an unlinked entry.
C4_IterationAfterUnlinks ==
    (/\ phase \in {"init", "load", "tx", "commit", "fail"}
     /\ NameB \in DOMAIN TxSlotsByName
     /\ SlotInPage(TxSlotsByName[NameB])
     /\ TxSlotsByName[NameB] # META_LIST)
    => LET r == LinkedListMutApi_iter_handles(CurrHeads[TxSlotsByName[NameB]], file_data)
       IN  /\ ~r.err
           /\ ~r.cut
           /\ Len(r.handles) = Len(b_adds)
           /\ \A i \in DOMAIN b_adds :
                 /\ r.handles[i] = b_adds[Len(b_adds) + 1 - i].handle
                 /\ r.values[i] = b_adds[Len(b_adds) + 1 - i].value
           /\ \A i \in DOMAIN r.seeks : r.seeks[i] \notin b_gone

C6_NoOverlap ==
    (Idle /\ phase # "init") =>
        /\ \A f \in free_space.sizes : \A e \in live :
              \A p \in e.start..(e.start + e.len - 1) : ~InRegion(p, f)
        /\ \A e1 \in live : \A e2 \in live :
              e1 # e2 => \A p \in e1.start..(e1.start + e1.len - 1) : ~InEntry(p, e2)

\* C10: after a commit with a trailing free region the file length is
\* page_size + trim_point - 1, with trim_point the start of the free region
\* of greatest end_pointer; and a body that pops the entry stored last in the
\* file shrinks the file by exactly the encoded length of that entry.
C10_TrimExact ==
    phase = "commit" =>
        /\ free_space.sizes # {} =>
              FileLen(file_data) = PageSize + TrimPoint(free_space) - 1
        /\ body_end.first = "poplast" =>
              FileLen(file_data) =
                  body_end.len_before - EntryHandle_entry_len(body_end.popped)

\* C10, amended: the first part as it stands; a body that pops the entry
\* stored last in the file shrinks the file by exactly that entry's encoded
\* length when the bytes right before the entry are not free, and by more
\* when they are (the freed entry is merged with the region before it).
C10_TrimCoalesced ==
    phase = "commit" =>
        /\ free_space.sizes # {} =>
              FileLen(file_data) = PageSize + TrimPoint(free_space) - 1
        /\ (body_end.first = "poplast" /\ ~body_end.prev_free) =>
              FileLen(file_data) =
                  body_end.len_before - EntryHandle_entry_len(body_end.popped)
        /\ (body_end.first = "poplast" /\ body_end.prev_free) =>
              FileLen(file_data) <
                  body_end.len_before - EntryHandle_entry_len(body_end.popped)

C10_Witness ==
    /\ phase = "commit"
    /\ body_end.first = "poplast"
    /\ body_end.prev_free

\* C11: in every session, opened by init or by load, no user list name is
\* ever given slot 0: the slot of the metadata list belongs to no name, in
\* the committed name map and in the map of the running transaction.
C11_SlotZeroReserved ==
    (phase \in {"init", "load", "tx", "commit", "fail"})
    => \A name \in Names :
          name \in DOMAIN TxSlotsByName => TxSlotsByName[name] # META_LIST

\* C12: after a transaction whose body succeeded and whose write of the
\* header page failed, the header buffer's table of list heads (the heads a
\* later transaction sees) and table of free slots, the free-space manager,
\* the index states and the file length are those before the transaction.
C12_HeadsRestored ==
    (phase = "fail" /\ body_end.write_failed) => page_buf.heads = pre.page_buf.heads

C12_FreesRestored ==
    (phase = "fail" /\ body_end.write_failed) => page_buf.frees = pre.page_buf.frees

C12_FreeSpaceRestored ==
    (phase = "fail" /\ body_end.write_failed) => free_space = pre.free_space

C12_IndexersRestored ==
    (phase = "fail" /\ body_end.write_failed) => indexers = pre.indexers

C12_LengthRestored ==
    (phase = "fail" /\ body_end.write_failed)
    => FileLen(file_data) = FileLen(pre.file_data)

C12_WriteFailureRollsBack ==
    /\ C12_HeadsRestored
    /\ C12_FreesRestored
    /\ C12_FreeSpaceRestored
    /\ C12_IndexersRestored
    /\ C12_LengthRestored

\* what list.api(tx).iter() gives for the list of the Vec, read through a
\* second handle of the same transaction
VecListSeen ==
    LinkedListApi_iter("u32", TxIoInner_curr_head(indexers[1].list), file_data)

Reverse(s) == [i \in 1..Len(s) |-> s[Len(s) + 1 - i]]

\* C13: inside a transaction every read of a list sees the pushes and pops
\* made earlier in the transaction and in the committed ones: iteration from
\* the current head gives the values pushed and not popped, newest first,
\* its first entry is at the buffered head when the slot has one and at the
\* head of the header page otherwise, and a pop returns the value pushed
\* last.
C13_ReadsSeeWrites ==
    (phase = "tx" /\ HasIndex("Vec"))
    => /\ ~VecListSeen.err
       /\ ~VecListSeen.cut
       /\ VecListSeen.values = Reverse(hist.abs)
       /\ hist.abs # <<>>
          => VecListSeen.handles[1].this_entry
                = IF indexers[1].list \in DOMAIN tx.changed_heads
                  THEN tx.changed_heads[indexers[1].list]
                  ELSE page_buf.heads[indexers[1].list]
       /\ hist.last.op = "pop" => hist.last.ret = hist.last.expect

\* a body that pushed onto a list with committed entries, popped a committed
\* entry and pushed again
C13_Witness ==
    /\ phase = "tx"
    /\ HasIndex("Vec")
    /\ tx.ops >= 3
    /\ hist.last.op = "push"
    /\ indexers[1].list \in DOMAIN tx.changed_heads
    /\ page_buf.heads[indexers[1].list] # Pointer_NULL
    /\ tx.changed_heads[indexers[1].list] # page_buf.heads[indexers[1].list]
    /\ Len(hist.abs) >= 2
    /\ hist.abs[1] # hist.abs[2]
    /\ free_space.pending_frees # <<>>

\* C14: take_list of a name whose slot is checked out (taken earlier in the
\* transaction, or taken on this database object by a committed take_list or
\* by get_list) returns an error and leaves the file, the free space, the
\* buffered heads and the transaction's name map, slot set and references as
\* they were; get_list of a name whose slot is checked out fails and leaves
\* list_refs as it was.
C14_SecondTakeFails ==
    /\ phase = "tx"
       => \A name \in Names :
             Holds(name)
             => /\ ~Transaction_take_list(name).ok
                /\ Transaction_take_list(name).io = TxIoNothing(TRUE)
                /\ Transaction_take_list(name).tx_slots_by_name = tx.tx_slots_by_name
                /\ Transaction_take_list(name).tx_used_slots = tx.tx_used_slots
                /\ Transaction_take_list(name).tx_list_refs = tx.tx_list_refs
    /\ Idle
       => \A name \in Names :
             (name \in DOMAIN slots_by_name /\ slots_by_name[name] \in list_refs)
             => /\ ~LlsDb_get_list(name).ok
                /\ LlsDb_get_list(name).list_refs = list_refs

\* a body that holds one list from a committed take and took another itself
C14_Witness ==
    /\ phase = "tx"
    /\ tx.ops >= 1
    /\ NameA \in DOMAIN slots_by_name
    /\ slots_by_name[NameA] \in list_refs
    /\ NameB \in DOMAIN tx.tx_slots_by_name
    /\ tx.tx_slots_by_name[NameB] \in tx.tx_list_refs
    /\ slots_by_name[NameA] # tx.tx_slots_by_name[NameB]

\* C15 as stated: a list taken in a committed transaction can be taken again
\* by name in any later transaction, on the same database object too.
C15_RetakeInLaterTx ==
    phase = "tx"
    => \A name \in Names :
          (/\ name \in DOMAIN slots_by_name
           /\ slots_by_name[name] \notin tx.tx_list_refs)
          => Transaction_take_list(name).ok

\* C15: the references a committed transaction took stay checked out on the
\* database object, so take_list of a committed name succeeds exactly when
\* its slot is checked out neither on the object nor in the transaction; a
\* load starts with nothing checked out, so the first take of a committed
\* name after a load succeeds.
C15_RetakeOnlyAfterLoad ==
    [][/\ (phase = "tx" /\ phase' = "commit")
          => list_refs' = list_refs \cup tx.tx_list_refs
       /\ Reload => list_refs' = {}
       /\ phase = "tx"
          => \A name \in Names :
                name \in DOMAIN slots_by_name
                => (Transaction_take_list(name).ok
                    <=> slots_by_name[name] \notin list_refs \cup tx.tx_list_refs)
      ]_vars

\* after a load: a body that took again one committed name while the other
\* is still checked out from an earlier transaction of the session
C15_Witness ==
    /\ phase = "tx"
    /\ NameA \in DOMAIN slots_by_name
    /\ slots_by_name[NameA] \in tx.tx_list_refs
    /\ NameB \in DOMAIN slots_by_name
    /\ slots_by_name[NameB] \in list_refs

\* C16: insert(k, v) into the ordered map when k is present with the value v
\* pushes no entry and allocates nothing: the file, the free space, the
\* buffered heads, the index and the change log stay as they are, and the
\* call returns the existing value.
C16_IdenticalInsertNoChange ==
    (phase = "tx" /\ HasIndex("BTreeMap"))
    => \A key \in DOMAIN hist.abs :
          /\ BTreeMapApi_insert(indexers[1], key, hist.abs[key]).ok
          /\ BTreeMapApi_insert(indexers[1], key, hist.abs[key]).io = TxIoNothing(TRUE)
          /\ BTreeMapApi_insert(indexers[1], key, hist.abs[key]).store = indexers[1]
          /\ BTreeMapApi_insert(indexers[1], key, hist.abs[key]).ret
                = [some |-> TRUE, val |-> hist.abs[key]]

\* the body has just inserted a pair the map already held, in a transaction
\* after the one that stored it
C16_Witness ==
    /\ phase = "tx"
    /\ HasIndex("BTreeMap")
    /\ hist.last.op = "insert"
    /\ hist.last.ret = [some |-> TRUE, val |-> hist.last.arg[2]]
    /\ indexers[1].tx_changes = <<>>
    /\ FileLen(file_data) = tx.starting_length
    /\ tx.changed_heads = <<>>
    /\ Cardinality(DOMAIN hist.abs) = 2

\* C17: for every key, get returns the value of the most recent insert of
\* the running or a committed transaction and nothing for a key never
\* inserted, insert returns the value stored before, and a map built from
\* the backing list after a load answers as the map did at the last commit.
C17_GetMostRecent ==
    (phase \in {"tx", "commit", "fail"} /\ HasIndex("BTreeMap"))
    => /\ \A key \in IndexKeys :
             BTreeMapApi_get(indexers[1], key, file_data)
                = IF key \in DOMAIN hist.abs
                  THEN [ok |-> TRUE, some |-> TRUE, val |-> hist.abs[key]]
                  ELSE [ok |-> TRUE, some |-> FALSE, val |-> 0]
       /\ DOMAIN indexers[1].index = DOMAIN hist.abs
       /\ hist.last.op = "insert" => hist.last.ret = hist.last.expect

\* the same when the map's list is not in the slot of the metadata list
C17_OffMetaSlot == (HasIndex("BTreeMap") /\ indexers[1].list # META_LIST) => C17_GetMostRecent

\* a map rebuilt after a load, with an overwritten key, answering inside a
\* transaction that overwrote a committed value
C17_OffMetaSlotWitness ==
    /\ phase = "tx"
    /\ HasIndex("BTreeMap")
    /\ indexers[1].list # META_LIST
    /\ tx.indexers_before_tx = 0
    /\ pre.file_data # <<>>
    /\ hist.last.op = "insert"
    /\ hist.last.ret.some
    /\ hist.last.ret.val # hist.last.arg[2]
    /\ Cardinality(DOMAIN hist.abs) = 2

\* what get, range and iter give for a map: its keys, and for every key the
\* value read behind its handle
MapSeen(store, data) ==
    [key \in DOMAIN store.index |-> BTreeMapApi_get(store, key, data)]

\* C18: after a failed transaction that inserted into a map registered in an
\* earlier transaction, the map has the keys it had before the transaction
\* and get returns for every key the value it returned before.
C18_MapRollback ==
    (phase = "fail" /\ pre.indexers # <<>> /\ pre.indexers[1].kind = "BTreeMap")
    => /\ HasIndex("BTreeMap")
       /\ MapSeen(indexers[1], file_data) = MapSeen(pre.indexers[1], pre.file_data)
       /\ \A key \in DOMAIN indexers[1].index :
             MapSeen(indexers[1], file_data)[key].ok
       /\ indexers[1].tx_changes = <<>>

\* the failed body inserted a new key and overwrote twice a key committed
\* before
C18_Witness ==
    /\ phase = "fail"
    /\ pre.indexers # <<>>
    /\ pre.indexers[1].kind = "BTreeMap"
    /\ DOMAIN pre.indexers[1].index # {}
    /\ \E i, j, k \in DOMAIN body_end.changes :
          /\ ~body_end.changes[i].some
          /\ j < k
          /\ body_end.changes[j].some
          /\ body_end.changes[k].some
          /\ body_end.changes[j].key = body_end.changes[k].key
          /\ body_end.changes[j].key \in DOMAIN pre.indexers[1].index

\* what get and iter give for a Vec: for every position the value read at
\* its pointer
VecSeen(store, data) ==
    [i \in DOMAIN store.index |-> VecApi_get(store, i, data)]

\* C19: the Vec returns at every position the value pushed there, in the
\* order of the pushes, and nothing behind the last; pop returns and removes
\* the value pushed last; after a failed transaction of pushes and pops on a
\* Vec registered before, the length and the value at every position are
\* those before the transaction.
C19_VecOrderAndRollback ==
    (phase \in {"tx", "commit", "fail"} /\ HasIndex("Vec"))
    => /\ VecSeen(indexers[1], file_data)
             = [i \in DOMAIN hist.abs |-> [ok |-> TRUE, some |-> TRUE, val |-> hist.abs[i]]]
       /\ ~VecApi_get(indexers[1], Len(hist.abs) + 1, file_data).some
       /\ hist.last.op = "pop" => hist.last.ret = hist.last.expect
       /\ (phase = "fail" /\ pre.indexers # <<>>)
          => /\ VecSeen(indexers[1], file_data) = VecSeen(pre.indexers[1], pre.file_data)
             /\ indexers[1].tx_changes = <<>>

\* the failed body popped a committed value and pushed
C19_Witness ==
    /\ phase = "fail"
    /\ pre.indexers # <<>>
    /\ HasIndex("Vec")
    /\ Len(hist.abs) >= 2
    /\ hist.abs[1] # hist.abs[2]
    /\ \E i, j \in DOMAIN body_end.changes :
          /\ i < j
          /\ body_end.changes[i].kind = "Pop"
          /\ body_end.changes[j].kind = "Push"

\* the same when the Vec's list is not in the slot of the metadata list
C19_OffMetaSlot == (HasIndex("Vec") /\ indexers[1].list # META_LIST) => C19_VecOrderAndRollback

\* after a load: a failed body changed a Vec rebuilt from the list and
\* registered by an earlier transaction
C19_OffMetaSlotWitness ==
    /\ phase = "fail"
    /\ pre.indexers # <<>>
    /\ HasIndex("Vec")
    /\ indexers[1].list # META_LIST
    /\ used_slots = {indexers[1].list}
    /\ hist.abs # <<>>
    /\ body_end.changes # <<>>

\* what get and iter give for a VecRemove: for every position the element
\* read at its entry pointer
VecRemoveSeen(store, data) ==
    [i \in DOMAIN store.index |-> VecRemoveApi_get(store, i, data)]

\* C20: after a failed transaction of push, pop, remove and retain on a
\* VecRemove registered in an earlier transaction, the length and the element
\* at every position are those before the transaction.
C20_VecRemoveRollback ==
    (phase = "fail" /\ pre.indexers # <<>> /\ pre.indexers[1].kind = "VecRemove")
    => /\ HasIndex("VecRemove")
       /\ Len(indexers[1].index) = Len(pre.indexers[1].index)
       /\ VecRemoveSeen(indexers[1], file_data)
             = VecRemoveSeen(pre.indexers[1], pre.file_data)
       /\ indexers[1].tx_changes = <<>>

\* the last operation on the VecRemove was a retain of the transaction that
\* is running, or of the transaction committed last
RetainCurrent == phase = "tx" /\ hist.last.op = "retain" /\ indexers[1].tx_changes # <<>>

RetainCommitted ==
    /\ hist.last.op = "retain"
    /\ phase = "commit" \/ (phase = "tx" /\ indexers[1].tx_changes = <<>>)

\* get(i) gives the i-th of the values the history expects, and nothing
\* behind them
RetainSeen ==
    /\ HasIndex("VecRemove")
    /\ VecRemoveSeen(indexers[1], file_data)
          = [i \in DOMAIN hist.last.expect.seen |->
                [ok |-> TRUE, panicked |-> FALSE, some |-> TRUE,
                 val |-> hist.last.expect.seen[i]]]

\* the transaction committed last was one call of retain that dropped
\* trailing elements
RetainTrailingCommitted ==
    /\ phase = "commit"
    /\ RetainCommitted
    /\ body_end.changes # <<>>
    /\ hist.last.expect.first
    /\ hist.last.expect.trailing
    /\ hist.last.expect.dropped_len > 0

RetainShrunk == FileLen(file_data) = body_end.len_before - hist.last.expect.dropped_len

\* C21: retain leaves exactly the elements for which the predicate returned
\* true, in their order, later in the same transaction and after commit; when
\* the dropped elements are the trailing ones, the file is shorter by their
\* encoded length after the commit.
C21_RetainKeepsAndShrinks ==
    /\ (RetainCurrent \/ RetainCommitted) => RetainSeen
    /\ RetainTrailingCommitted => RetainShrunk

C21_RetainKeeps == (RetainCurrent \/ RetainCommitted) => RetainSeen

\* the entries of a VecRemove's index, without the pointers behind them
EntriesOf(index) == [i \in DOMAIN index |-> index[i].this_entry]

\* C22: at every transaction boundary the index of a VecRemove is the
\* sequence VecRemove::new builds from the list: the same entries in the
\* same order, and so the same elements.
C22_IndexIsRebuild ==
    (phase \in {"commit", "fail"} /\ HasIndex("VecRemove"))
    => /\ VecRemove_new(indexers[1].list).ok
       /\ EntriesOf(VecRemove_new(indexers[1].list).store.index)
             = EntriesOf(indexers[1].index)
       /\ VecRemoveSeen(VecRemove_new(indexers[1].list).store, file_data)
             = VecRemoveSeen(indexers[1], file_data)

\* the free regions of f that end inside the file of length len
InteriorRegions(f, len) == {r \in f.sizes : r.size > 0 /\ r.end_pointer <= len + 1}

\* the body's first operation was a push on the mutable list, and when the
\* transaction began the only free region inside the file was the place of
\* an unlinked entry, as long as the pushed entry
PushAfterUnlink ==
    /\ phase = "tx"
    /\ tx.ops = 1
    /\ Len(b_adds) = Len(pre.b_adds) + 1
    /\ \E r \in InteriorRegions(pre.free_space, Len(pre.file_data)) :
          /\ InteriorRegions(pre.free_space, Len(pre.file_data)) = {r}
          /\ Free_start_pointer(r) \in pre.b_gone
          /\ r.size = EntryHandle_entry_len(Last(b_adds).handle)

\* C23: after a non-head entry of a mutable list is unlinked and the
\* transaction commits, with no other free region inside the file, the next
\* push of an entry of the same encoded length is written at the unlinked
\* entry's address and the file length does not change.
C23_PushReusesUnlinked ==
    PushAfterUnlink
    => /\ \E r \in InteriorRegions(pre.free_space, Len(pre.file_data)) :
              Last(b_adds).handle.this_entry = Free_start_pointer(r)
       /\ FileLen(file_data) = tx.starting_length

\* the unlinked entry lay between two entries that are still in the list
C23_Witness ==
    /\ PushAfterUnlink
    /\ Len(pre.b_adds) = 2
    /\ pre.b_adds[1].handle.this_entry < Last(b_adds).handle.this_entry
    /\ Last(b_adds).handle.this_entry < pre.b_adds[2].handle.this_entry
    /\ FileLen(file_data) = tx.starting_length

\* the regions the header page on disk held in its free slots before the
\* load
PersistedRegions == {before_load.frees[i] : i \in DOMAIN before_load.frees} \ {Free_NULL}

\* the entries written by the running transaction
NewEntries == live \ pre.live

\* the first operation of the first transaction after a load wrote an entry
\* that fits into a free region inside the file
PushAfterLoad ==
    /\ phase = "tx"
    /\ pre.after_load
    /\ tx.ops = 1
    /\ Cardinality(NewEntries) = 1
    /\ \E e \in NewEntries :
          \E r \in InteriorRegions(pre.free_space, Len(pre.file_data)) : r.size >= e.len

\* C24: a free region stored in a free slot of the header page is held by
\* the free-space manager after load with the same start and size; a push
\* after load whose entry fits into such a region inside the file is placed
\* in one and does not grow the file.
C24_PersistedRegionsLoaded ==
    /\ phase = "load" => PersistedRegions \subseteq free_space.sizes
    /\ PushAfterLoad
       => /\ \E e \in NewEntries :
                \E r \in InteriorRegions(pre.free_space, Len(pre.file_data)) :
                    e.start = Free_start_pointer(r) /\ r.size >= e.len
          /\ FileLen(file_data) = tx.starting_length

\* a list entry was pushed into the place of a popped one after a load
C24_Witness ==
    /\ PushAfterLoad
    /\ tx.tx_slots_by_name = <<>>
    /\ NameA \in DOMAIN slots_by_name
    /\ slots_by_name[NameA] # META_LIST
    /\ \E e \in NewEntries : e.start + e.len - 1 < Len(file_data)

\* the entries of the u32 list that were pushed and not popped
CellEntries == {e \in live : e.len = 2}

\* the caller holds the list a in the running transaction
HoldsCellList ==
    /\ phase = "tx"
    /\ Holds(NameA)
    /\ SlotInPage(TxSlotsByName[NameA])

CellListed(store) ==
    LinkedListApi_iter("Pointer", CurrHeads[store.list], file_data)

\* C25: Cell::new fails when the list holds no entry or more than one; with
\* a Cell registered, in and after committed and failed transactions, the
\* list holds exactly one entry, get returns the value of the last replace
\* of a committed or the running transaction, and a replace returned the
\* value get gave right before it.
C25_CellHoldsOne ==
    /\ (HoldsCellList /\ Cardinality(CellEntries) # 1)
       => ~Cell_new(TxSlotsByName[NameA]).ok
    /\ (phase \in {"tx", "commit", "fail"} /\ HasIndex("Cell"))
       => /\ Cardinality(CellEntries) = 1
          /\ Len(CellListed(indexers[1]).handles) = 1
          /\ ~CellListed(indexers[1]).err
          /\ CellApi_get(indexers[1], CurrHeads, file_data)
                = [ok |-> TRUE, val |-> hist.abs[1]]
          /\ hist.last.op = "replace"
             => /\ hist.last.expect.get.ok
                /\ hist.last.ret = [some |-> TRUE, val |-> hist.last.expect.get.val]
                /\ <<hist.last.ret.val>> = hist.last.expect.abs

\* the same where the list a is not in the slot of the metadata list
C25_OffMetaSlot ==
    (NameA \in DOMAIN TxSlotsByName /\ TxSlotsByName[NameA] # META_LIST)
    => C25_CellHoldsOne

\* a failed transaction replaced the value of a Cell of an earlier one
C25_Witness ==
    /\ phase = "fail"
    /\ HasIndex("Cell")
    /\ slots_by_name[NameA] # META_LIST
    /\ hist.last.op = "replace"
    /\ hist.last.ret.val # hist.abs[1]

\* the names whose list the failed transaction took or gave to an index it
\* stored
ReleasedNames ==
    {name \in DOMAIN body_end.names :
        body_end.names[name] \in body_end.taken \cup body_end.stored}

\* C26: after a failed transaction the registry of indexes has its length of
\* before the transaction; no list owned by an index the transaction stored
\* and no list it took is checked out, and a take_list of its name succeeds;
\* every index registered before has been rolled back (its log of changes is
\* empty).
C26_FailedStoreReleases ==
    phase = "fail"
    => /\ Len(indexers) = Len(pre.indexers)
       /\ list_refs \cap (body_end.taken \cup body_end.stored) = {}
       /\ \A name \in ReleasedNames : Transaction_take_list(name).ok
       /\ \A i \in DOMAIN indexers :
             /\ indexers[i].tx_changes = <<>>
             /\ indexers[i].kind = pre.indexers[i].kind
             /\ indexers[i].list = pre.indexers[i].list

\* a transaction changed a Vec of an earlier transaction, stored a BTreeMap
\* over a list of an earlier transaction, and failed
C26_Witness ==
    /\ phase = "fail"
    /\ Len(indexers) = 1
    /\ body_end.changes # <<>>
    /\ body_end.stored # {}
    /\ body_end.stored \cap pre.list_refs # {}

\* execute has returned or a panic has left it
Exited == phase \in {"commit", "fail", "panicked"}

\* C27: when execute has been left, by Ok, by Err or by a panic of the body,
\* the database object holds the Io and the FreeSpace again.
C27_IoReturned == Exited => ~tx.io_taken

\* the same for the two paths on which execute returns
C27_IoReturnedOnReturn == phase \in {"commit", "fail"} => ~tx.io_taken

C27_ReturnWitness ==
    /\ phase = "fail"
    /\ body_end.grew

\* the regions of the free slots the loaded header page had on disk
LoadedSlots == {before_load.frees[i] : i \in DOMAIN before_load.frees}

\* two slots hold regions that overlap or touch
SlotsClash ==
    \E i \in DOMAIN before_load.frees : \E j \in DOMAIN before_load.frees :
        /\ i # j
        /\ before_load.frees[i].size > 0
        /\ before_load.frees[j].size > 0
        /\ Free_start_pointer(before_load.frees[i]) <= before_load.frees[j].end_pointer
        /\ Free_start_pointer(before_load.frees[j]) <= before_load.frees[i].end_pointer

\* C28: load returns Ok only for a header page in which no free slot has
\* size > end_pointer and no two free slots hold overlapping or adjacent
\* regions.
C28_LoadRejectsInconsistent ==
    (phase = "load" /\ before_load # <<>>)
    => /\ \A f \in LoadedSlots : f.size <= f.end_pointer
       /\ ~SlotsClash

\* the part on the single slot
C28_LoadRejectsMalformed ==
    (phase = "load" /\ before_load # <<>>) => \A f \in LoadedSlots : f.size <= f.end_pointer

\* load returned Err for a slot with size > end_pointer
C28_MalformedWitness ==
    /\ phase = "load_failed"
    /\ \E f \in LoadedSlots : f.size > f.end_pointer

\* the coalescing index in use: the harness's, or the database's
TheIndex == IF phase = "unit" THEN fs ELSE free_space

\* the regions of the index that can hold size bytes
Fitting(index, size) == {f \in index.sizes : f.size >= size}

\* free is the least of the regions S in the order (size, end_pointer)
LeastBySizeThenEnd(free, S) ==
    /\ free \in S
    /\ \A g \in S : \/ g.size > free.size
                    \/ g.size = free.size /\ g.end_pointer >= free.end_pointer

\* what the index holds after size bytes were taken from the region free
AfterTake(index, free, size) ==
    (index.sizes \ {free})
        \cup (IF free.size > size THEN {Free(free.size - size, free.end_pointer)} ELSE {})

TakenAsSpecified(index, size) ==
    \E r \in {FreeSpace_take_for_size(index, size)} :
        IF Fitting(index, size) = {} THEN ~r.some
        ELSE \E free \in Fitting(index, size) :
                /\ LeastBySizeThenEnd(free, Fitting(index, size))
                /\ r.some
                /\ r.pointer = free.end_pointer - free.size
                /\ r.fs.sizes = AfterTake(index, free, size)

\* C29: take_for_size(s) takes from the region that is least in the order
\* (size, end_pointer) among those with size >= s, returns its start pointer,
\* removes it and, when size > s, puts back (end_pointer, size - s); every
\* other region of the index is unchanged.
C29_TakeForSize ==
    (phase \notin {"closed", "load_failed", "panicked"} /\ TheIndex # <<>> /\ ~TheIndex.panicked)
    => \A size \in 1..MaxTake : TakenAsSpecified(TheIndex, size)

\* a take in the harness that left a remainder
C29_HarnessWitness ==
    /\ fs_last = "take"
    /\ \E f \in fs.sizes : \E space \in spaces : space.end_pointer = f.end_pointer - f.size

\* the bytes of a set of regions
RegionBytes(regions) ==
    UNION {(f.end_pointer - f.size)..(f.end_pointer - 1) : f \in regions}

IndexBytes(index) == RegionBytes(index.sizes)

PendingBytes(index) ==
    RegionBytes({index.pending_frees[i] : i \in DOMAIN index.pending_frees})

EntryBytes(entries) == UNION {e.start..(e.start + e.len - 1) : e \in entries}

\* one step of the body: the index gains no byte, pending_frees only grows,
\* and the entries the step wrote lie on no byte that was pending
BodyStepDefers ==
    (phase = "tx" /\ phase' = "tx")
    => /\ IndexBytes(free_space') \subseteq IndexBytes(free_space)
       /\ Len(free_space'.pending_frees) >= Len(free_space.pending_frees)
       /\ SubSeq(free_space'.pending_frees, 1, Len(free_space.pending_frees))
             = free_space.pending_frees
       /\ EntryBytes(live' \ live) \cap PendingBytes(free_space) = {}

\* where execute returned: at commit the pending frees are all in the index,
\* after a failed body the index is the one the transaction began with
FreesSettled ==
    /\ phase = "commit"
       => /\ free_space.pending_frees = <<>>
          /\ RegionBytes({body_end.pending[i] : i \in DOMAIN body_end.pending})
                \subseteq IndexBytes(free_space)
    /\ phase = "fail"
       => /\ free_space.pending_frees = <<>>
          /\ free_space.sizes = pre.free_space.sizes
          /\ free_space.end_to_start = pre.free_space.end_to_start

\* C30: while the body runs, the frees of pop, unlink and free only gather in
\* pending_frees: the index gains no byte, and no allocation returns a byte
\* freed earlier in the transaction; at commit they are all in the index;
\* when the body fails they are dropped and the index is the one the
\* transaction began with.
C30_FreesDeferred == []FreesSettled /\ [][BodyStepDefers]_vars

\* a body freed a region and then pushed an entry that would have fitted in
\* it: the entry lies behind the region
C30_Witness ==
    /\ phase = "tx"
    /\ \E i \in DOMAIN free_space.pending_frees : \E e \in NewEntries :
          /\ e.len <= free_space.pending_frees[i].size
          /\ e.start >= free_space.pending_frees[i].end_pointer

\* a body that freed a region failed
C30_FailWitness == phase = "fail" /\ body_end # <<>> /\ body_end.pending # <<>>

\* the persistent snapshot in use
ThePersist == TheIndex.persist

\* what the snapshot keeps besides the slots changed since the last flush
Layout(p) ==
    [state |-> p.state, reverse_by_size |-> p.reverse_by_size,
     unused_slots |-> p.unused_slots, unplaced_queue |-> p.unplaced_queue,
     panicked |-> p.panicked]

HeldByPersist(p) == DOMAIN p.reverse_by_size \cup p.unplaced_queue

\* the regions add is tried with: every region of an address space one byte
\* longer than the harness's
ProbeRegions == {Free(size, end_pointer) : size \in 1..(FsRegion + 1),
                                          end_pointer \in 1..(FsRegion + 1)}

RemoveThenAdd(p, x) == PersistFreeSpace_add(PersistFreeSpace_remove(p, x), x)

AddThenRemove(p, x) == PersistFreeSpace_remove(PersistFreeSpace_add(p, x), x)

\* C31: in the persistent snapshot, remove(x) then add(x) restores the slot
\* array, the reverse map, the order of the unused slots and the unplaced
\* queue for every region x it holds, and add(x) then remove(x) does so for
\* every region x it does not hold, also when x is as large as the smallest
\* region in a slot.
C31_AddRemoveInverse ==
    (/\ phase \notin {"closed", "load_failed", "panicked"}
     /\ TheIndex # <<>>
     /\ ~TheIndex.panicked
     /\ ~ThePersist.panicked)
    => /\ \A x \in HeldByPersist(ThePersist) :
              Layout(RemoveThenAdd(ThePersist, x)) = Layout(ThePersist)
       /\ \A x \in {y \in ProbeRegions : y.size <= y.end_pointer}
                       \ HeldByPersist(ThePersist) :
              Layout(AddThenRemove(ThePersist, x)) = Layout(ThePersist)

\* the slots are full, a region waits in the unplaced queue, and it is as
\* large as a region in a slot
C31_Witness ==
    /\ phase = "unit"
    /\ fs_last \in {"take", "success"}
    /\ fs.persist.unused_slots = <<>>
    /\ \E q \in fs.persist.unplaced_queue : \E x \in DOMAIN fs.persist.reverse_by_size :
          q.size = x.size

\* the regions in the slots of the snapshot
InSlots(p) == {p.state[i] : i \in DOMAIN p.state} \ {Free_NULL}

\* the adjacency map and the size set hold the same regions
IndexCoherent(index) ==
    /\ DOMAIN index.end_to_start = {f.end_pointer : f \in index.sizes}
    /\ \A f \in index.sizes : index.end_to_start[f.end_pointer] = Free_start_pointer(f)

\* every region of the index is in a slot or in the unplaced queue, not in
\* both, and the slots and the queue hold nothing else
IndexInSnapshot(index) ==
    /\ IndexCoherent(index)
    /\ index.sizes = InSlots(index.persist) \cup index.persist.unplaced_queue
    /\ InSlots(index.persist) \cap index.persist.unplaced_queue = {}
    /\ DOMAIN index.persist.reverse_by_size = InSlots(index.persist)
    /\ \A f \in InSlots(index.persist) :
          index.persist.state[index.persist.reverse_by_size[f]] = f
    /\ \A i \in DOMAIN index.persist.state : \A j \in DOMAIN index.persist.state :
          (i # j /\ index.persist.state[i] # Free_NULL)
          => index.persist.state[i] # index.persist.state[j]

\* C32: in every state of the free-space manager, right after init and right
\* after load too, each region of the coalescing index is in exactly one of
\* a snapshot slot and the unplaced queue, and these hold nothing else.
C32_IndexInSnapshot ==
    (/\ phase \notin {"closed", "load_failed", "panicked"}
     /\ TheIndex # <<>>
     /\ ~TheIndex.panicked
     /\ ~ThePersist.panicked)
    => IndexInSnapshot(TheIndex)

\* the harness with a region in the unplaced queue
C32_HarnessWitness ==
    /\ phase = "unit"
    /\ fs_last \in {"take", "success"}
    /\ fs.persist.unplaced_queue # {}

\* the handles unlink is called with on the mutable list: those the caller
\* holds, and the one pop takes from the iteration
UnlinkHandles ==
    {b_adds[i].handle : i \in DOMAIN b_adds}
        \cup UNION {IF Len(it.handles) = 0 THEN {} ELSE {it.handles[1]} :
                       it \in {LinkedListMutApi_iter_handles(
                                  TxIoInner_curr_head(TxSlotsByName[NameB]), file_data)}}

\* the entry at pointer `at` of the mutable list, as the file has it
EntryAt(at) ==
    LET prev == DecodeVarint(file_data, at)
        value == DecodeMut(file_data, at + prev.len)
    IN  [prev |-> prev.val, len |-> prev.len + value.len]

\* unlink at the head: a pop
UnlinkPops(r, list_slot) ==
    \E head \in {TxIoInner_curr_head(list_slot)} :
        /\ r.data = file_data
        /\ r.changed_heads = MapInsert(tx.changed_heads, list_slot, EntryAt(head).prev)
        /\ r.free_space =
              [free_space EXCEPT !.pending_frees =
                  Append(@, Free_from_start_pointer(head, EntryAt(head).len))]

\* unlink elsewhere: one Remap entry is written into free bytes and becomes
\* the head, the unlinked entry's bytes are queued
UnlinkRemaps(r, list_slot, handle) ==
    \E entry_bytes \in {TxIo_encode_entry(EncodeRemap(handle.this_entry,
                                                      handle.next_entry_possibly_stale),
                                          TxIoInner_curr_head(list_slot))} :
        LET at == r.handle.this_entry
            written == at..(at + Len(entry_bytes) - 1)
        IN  /\ Len(r.data) >= Len(file_data)
            /\ SubSeq(r.data, at, at + Len(entry_bytes) - 1) = entry_bytes
            /\ \A k \in DOMAIN file_data : k \notin written => r.data[k] = file_data[k]
            /\ written \cap EntryBytes(live) = {}
            /\ r.changed_heads = MapInsert(tx.changed_heads, list_slot, at)
            /\ r.free_space.pending_frees =
                  Append(free_space.pending_frees,
                         Free_from_start_pointer(handle.this_entry,
                                                 EntryHandle_entry_len(handle)))

UnlinkAsSpecified(list_slot, handle) ==
    \E r \in {LinkedListMutApi_unlink(list_slot, handle)} :
        (r.ok /\ r.some)
        => IF TxIoInner_curr_head(list_slot) = handle.this_entry
           THEN UnlinkPops(r, list_slot)
           ELSE UnlinkRemaps(r, list_slot, handle)

\* C33: unlink(handle) on the mutable list pops when the handle is the head
\* (nothing is written, the head becomes the entry's prev-pointer, its bytes
\* are queued for free); otherwise it writes one Remap{from: this_entry,
\* to: next_entry_possibly_stale} as the new head, into bytes of no existing
\* entry, and queues the unlinked entry's bytes for free.
C33_Unlink ==
    (phase = "tx" /\ Healthy /\ Holds(NameB) /\ SlotInPage(TxSlotsByName[NameB]))
    => \A handle \in UnlinkHandles : UnlinkAsSpecified(TxSlotsByName[NameB], handle)

\* the values a push is tried with
ProbeValues == {1, 2}

\* what iterating the immutable list gives after an operation left `r`
IterAfter(r, list_slot) ==
    LinkedListApi_iter("u32", r.changed_heads[list_slot], r.data)

\* push returns the handle of the new head, whose prev-pointer is the head
\* before; the iteration then yields the value first and the rest as before
PushAsSpecified(list_slot, value) ==
    \E r \in {TxIo_push(list_slot, EncodeVarint(value), 0)},
       before \in {LinkedListApi_iter("u32", TxIoInner_curr_head(list_slot), file_data)} :
        r.ok
        => /\ r.handle.this_entry = r.changed_heads[list_slot]
           /\ r.handle.this_entry # 0
           /\ r.handle.next_entry_possibly_stale = TxIoInner_curr_head(list_slot)
           /\ \E after \in {IterAfter(r, list_slot)} :
                 /\ ~after.err /\ ~after.cut
                 /\ after.values = <<value>> \o before.values
                 /\ after.handles = <<r.handle>> \o before.handles

\* pop returns the first value of the iteration and moves the head to the
\* entry's prev-pointer: the iteration then yields the rest; on the empty
\* list pop returns None and changes nothing
PopAsSpecified(list_slot) ==
    \E r \in {TxIo_pop(list_slot, "u32")},
       before \in {LinkedListApi_iter("u32", TxIoInner_curr_head(list_slot), file_data)} :
        /\ ~before.err /\ ~before.cut
        /\ r.ok
        /\ r.data = file_data
        /\ IF TxIoInner_curr_head(list_slot) = 0
           THEN /\ Len(before.values) = 0
                /\ ~r.some
                /\ r.changed_heads = tx.changed_heads
                /\ r.free_space = free_space
           ELSE /\ r.some
                /\ r.val = before.values[1]
                /\ r.changed_heads =
                      MapInsert(tx.changed_heads, list_slot,
                                before.handles[1].next_entry_possibly_stale)
                /\ before.handles[1].next_entry_possibly_stale
                      = DecodeVarint(file_data, TxIoInner_curr_head(list_slot)).val
                /\ \E after \in {IterAfter(r, list_slot)} :
                      /\ after.values = Tail(before.values)
                      /\ after.handles = Tail(before.handles)

\* clear pops every entry of the iteration and leaves the head NULL
ClearAsSpecified(list_slot) ==
    \E c \in {LinkedListApi_clear(list_slot, "u32")},
       before \in {LinkedListApi_iter("u32", TxIoInner_curr_head(list_slot), file_data)} :
        /\ ~c.cut
        /\ c.io.ok
        /\ c.popped = before.handles
        /\ (IF list_slot \in DOMAIN c.io.changed_heads
            THEN c.io.changed_heads[list_slot] ELSE page_buf.heads[list_slot]) = 0

\* C34: on the immutable list, push returns a handle with this_entry the new
\* head and next_entry_possibly_stale the previous head; the iteration yields
\* the values not popped, last pushed first; pop returns the last pushed
\* value and sets the head to its prev-pointer; pop on the empty list
\* returns None and changes nothing; clear leaves the head NULL.
C34_ImmutableList ==
    (phase = "tx" /\ Healthy /\ Holds(NameA) /\ SlotInPage(TxSlotsByName[NameA]))
    => /\ \A value \in ProbeValues : PushAsSpecified(TxSlotsByName[NameA], value)
       /\ PopAsSpecified(TxSlotsByName[NameA])
       /\ ClearAsSpecified(TxSlotsByName[NameA])

\* the lengths of the value a push_kv is tried with
ProbeKvLens == {1, SmallSpace}

\* no region of the index has `size` bytes
NoRoom(size) == \A f \in free_space.sizes : f.size < size

\* the operation returned Err and left the transaction's I/O as it was
FailedUnchanged(r) ==
    /\ ~r.ok
    /\ r.free_space = free_space
    /\ r.changed_heads = tx.changed_heads
    /\ r.data = file_data

PushFailsUnchanged(list_slot, value_bytes) ==
    NoRoom(Len(TxIo_encode_entry(value_bytes, TxIoInner_curr_head(list_slot))))
    => \E r \in {TxIo_push(list_slot, value_bytes, 0)} : FailedUnchanged(r)

PushKvFailsUnchanged(list_slot, key_bytes, value_bytes) ==
    NoRoom(Len(TxIo_encode_entry(key_bytes, TxIoInner_curr_head(list_slot)))
           + Len(value_bytes))
    => \E r \in {TxIo_push_kv(list_slot, key_bytes, value_bytes)} : FailedUnchanged(r)

\* C35: when no free region has the size of the encoded entry (plus the
\* value's length for push_kv), push returns an error and leaves the
\* free-space manager, the buffered heads and the file unchanged.
C35_PushFailsUnchanged ==
    (phase = "tx" /\ Healthy /\ Holds(NameB) /\ SlotInPage(TxSlotsByName[NameB]))
    => /\ \A value \in ProbeValues :
             PushFailsUnchanged(TxSlotsByName[NameB], EncodeAdd(value))
       /\ \A value \in ProbeValues, len \in ProbeKvLens :
             PushKvFailsUnchanged(TxSlotsByName[NameB], EncodeVarint(value),
                                  [i \in 1..len |-> 1])

\* entries have been pushed in this transaction and there is no room for
\* another one
C35_Witness ==
    /\ phase = "tx"
    /\ Healthy
    /\ Holds(NameB)
    /\ tx.ops > 0
    /\ Len(b_adds) > 0
    /\ TxIoInner_curr_head(TxSlotsByName[NameB]) # Pointer_NULL
    /\ NoRoom(Len(TxIo_encode_entry(EncodeAdd(1),
                                    TxIoInner_curr_head(TxSlotsByName[NameB]))))

\* C36: after every commit that succeeds, whatever the max_size of the
\* backend, every byte of every live entry lies below the file length.
C36_LiveInFile ==
    phase = "commit" => \A e \in live : e.start + e.len - 1 <= Len(file_data)

\* the regions a clear of the mutable list queues for free, in order
ClearQueued(c) ==
    SubSeq(c.io.free_space.pending_frees,
           Len(free_space.pending_frees) + 1, Len(c.io.free_space.pending_frees))

\* every region queued holds a live entry, no two of them share a byte, and
\* none has a byte that is queued or free already
QueuedOnce(queued) ==
    /\ \A i \in DOMAIN queued :
          /\ LiveEntry(Free_start_pointer(queued[i]), queued[i].size) \in live
          /\ RegionBytes({queued[i]}) \cap PendingBytes(free_space) = {}
          /\ RegionBytes({queued[i]}) \cap IndexBytes(free_space) = {}
    /\ \A i, j \in DOMAIN queued :
          i # j => RegionBytes({queued[i]}) \cap RegionBytes({queued[j]}) = {}

\* C37: clear() on the mutable list, also after unlinks away from the head,
\* queues for free only entries that are still on the list, each once: no
\* byte is queued twice or queued while it is free already.
C37_ClearQueuesOnce ==
    (phase = "tx" /\ Healthy /\ Holds(NameB) /\ SlotInPage(TxSlotsByName[NameB]))
    => \E c \in {LinkedListMutApi_clear(TxSlotsByName[NameB])} :
          (c.io.ok /\ ~c.cut) => QueuedOnce(ClearQueued(c))

\* what where_to_trim gives to the commit of the running transaction
TrimAtCommit(done) == FreeSpace_where_to_trim(done.free_space)

\* C38: at the commit of a transaction where_to_trim never gives the NULL
\* pointer, so the expect in execute does not fail, also when the entries
\* use up the whole address space.
C38_TrimNotNull ==
    (phase = "tx" /\ Healthy)
    => \E done \in {LlsDb_execute_ok(page_buf, free_space, tx.changed_heads, file_data)} :
          (~done.free_space.panicked /\ ~done.free_space.persist.panicked)
          => /\ TrimAtCommit(done).some => TrimAtCommit(done).pointer # Pointer_NULL
             /\ ~done.panicked

\* no region of the index has size zero
C38_NoZeroRegion ==
    phase \notin {"closed", "load_failed", "panicked"}
    => \A f \in free_space.sizes : f.size > 0

\* the body has just called clear() on a removable sequence that was there
\* when the transaction began
ClearedInBody ==
    /\ phase = "tx"
    /\ Healthy
    /\ hist.last.op = "clear"
    /\ HasIndex("VecRemove")
    /\ tx.indexers_before_tx >= 1
    /\ pre.indexers # <<>>

\* C39: when the body of a transaction that called clear() on a removable
\* sequence of n >= 0 elements returns Err, the rollback completes without
\* a panic and the index is the one before the transaction.
C39_ClearRollsBack ==
    ClearedInBody
    => \E rolled \in {LlsDb_execute_err_indexers(indexers, tx.indexers_before_tx,
                                                 list_refs)} :
          /\ ~rolled.panicked
          /\ rolled.indexers[1].index = pre.indexers[1].index
          /\ rolled.indexers[1].tx_changes = <<>>

\* the same for sequences of at most one element
C39_ShortProbe ==
    (ClearedInBody /\ Len(pre.indexers[1].index) <= 1 /\ Len(indexers[1].tx_changes) <= 1)
    => \E rolled \in {LlsDb_execute_err_indexers(indexers, tx.indexers_before_tx,
                                                 list_refs)} :
          /\ ~rolled.panicked
          /\ rolled.indexers[1].index = pre.indexers[1].index

\* no address is read twice
EachOnce(seeks) == \A i, j \in DOMAIN seeks : i # j => seeks[i] # seeks[j]

\* the iteration came to its end within Fuel steps, reading each address once
Terminates(r) == ~r.cut /\ EachOnce(r.seeks)

\* the iteration of the list `name`, from the head the transaction sees
IterOf(name) ==
    IF ListType(name) = "Mut"
    THEN LinkedListMutApi_iter_handles(CurrHeads[TxSlotsByName[name]], file_data)
    ELSE LinkedListApi_iter("u32", CurrHeads[TxSlotsByName[name]], file_data)

\* C40: after a committed transaction the iteration of every list
\* terminates: following the prev-pointers, with the remaps substituted, it
\* reaches NULL and reads no address twice.
C40_IterationTerminates ==
    phase = "commit"
    => \A name \in DOMAIN slots_by_name :
          SlotInPage(slots_by_name[name])
          => \E r \in {IterOf(name)} : Terminates(r) /\ ~r.err

\* the same, asking only that the iteration comes to an end
C40_EndsProbe ==
    phase = "commit"
    => \A name \in DOMAIN slots_by_name :
          SlotInPage(slots_by_name[name]) => \E r \in {IterOf(name)} : ~r.cut

\* the same, asking only that no address is read twice
C40_OnceProbe ==
    phase = "commit"
    => \A name \in DOMAIN slots_by_name :
          SlotInPage(slots_by_name[name])
          => \E r \in {IterOf(name)} : EachOnce(r.seeks)

====
